---- MODULE Spec2Model ----
(***************************************************************************)
(* Working copy <-> repository coupling of snowdrop (src/snowdrop/cli.py). *)
(*                                                                         *)
(* A layer has two columns: the primary key "id" and one value column "v". *)
(* A tree is identified by its content (content addressing), so the tree   *)
(* id recorded in __kxg_meta is modelled by the tree value itself.         *)
(***************************************************************************)
EXTENDS Bags, FiniteSets, Integers, Sequences, TLC

VARIABLES
    commits,     \* object store: sequence of commits [tree, parents, time]
    head,        \* HEAD: index into commits
    wc,          \* TRUE when kx.workingcopy is configured (GeoPackage exists)
    table,       \* user table: function primary key -> value of column v
    kmap,        \* __kxg_map: bag of rows [fk, id, state]
    meta_tree,   \* __kxg_meta: value of the row key='tree'
    dbmeta,      \* meta items read from the gpkg_* tables of the working copy
    triggers,    \* installed triggers, subset of {"ins", "upd", "del"}
    contents,    \* gpkg_contents row of the layer: [min_x, max_x, last_change]
    procs,       \* commands in flight: each process's command and position
    geom,        \* a geometry value under conversion: [gpkg, ewkb, back]
    lfs,         \* the point-cloud dataset: pointer files, working directory, cache
    repo_cfg,    \* the repository configuration a working-copy lookup reads
    table_info,  \* PRAGMA table_info of a table: its fields and the key found
    loader,      \* the feature load of a new checkout: features read and buffered
    last,        \* the last statement or command run, its outcome and arguments
    nops         \* number of statements and commands run so far

vars == <<commits, head, wc, table, kmap, meta_tree, dbmeta, triggers, contents,
          procs, geom, lfs, repo_cfg, table_info, loader, last, nops>>

----------------------------------------------------------------------------
(* Bounds *)
MaxPK == 2          \* primary keys are 1..MaxPK
MaxVal == 2         \* column values are 1..MaxVal
MaxFK == 3          \* feature keys (UUIDs) are 1..MaxFK
MaxMeta == 2        \* meta contents are 1..MaxMeta
MaxOps == 5         \* statements and commands in a behaviour

NULL == 0           \* SQL NULL / Python None

PKs == 1..MaxPK
Vals == 1..MaxVal
FKeys == 1..MaxFK
Metas == 1..MaxMeta

AllTriggers == {"ins", "upd", "del"}
NoTree == [meta |-> NULL, feats |-> <<>>]

----------------------------------------------------------------------------
(* Generic helpers *)

Min(S) == CHOOSE x \in S : \A y \in S : x <= y

\* a set of integers as the ascending sequence (ORDER BY / sort by path)
RECURSIVE Sorted(_)
Sorted(S) == IF S = {} THEN <<>> ELSE <<Min(S)>> \o Sorted(S \ {Min(S)})

\* tables are bags of rows. SELECT ... WHERE: the rows of the bag that are in S
Where(bag, S) == [r \in DOMAIN bag \cap S |-> bag[r]]
\* DELETE ... WHERE
DeleteWhere(bag, S) == [r \in DOMAIN bag \ S |-> bag[r]]
\* UPDATE ... SET the fields of the record u ... WHERE
UpdateWhere(bag, S, u) ==
    BagOfAll(LAMBDA r : IF r \in S
                        THEN [k \in DOMAIN r |-> IF k \in DOMAIN u THEN u[k] ELSE r[k]]
                        ELSE r,
             bag)
InsertRow(bag, r) == bag (+) SetToBag({r})
\* SELECT COUNT(*) ... WHERE
Count(bag, S) == BagCardinality(Where(bag, S))

\* the user table row with primary key p, as the SQL row (column -> value)
Row(t, p) == [id |-> p, v |-> t[p]]
NullRow == [id |-> NULL, v |-> NULL]
Columns == {"id", "v"}
TableRows(t) == {Row(t, p) : p \in DOMAIN t}

\* removal / insertion of one user table row
Without(t, p) == [q \in DOMAIN t \ {p} |-> t[q]]
With(t, p, val) == [q \in DOMAIN t \cup {p} |-> IF q = p THEN val ELSE t[q]]

----------------------------------------------------------------------------
(* Triggers: _create_triggers, _drop_triggers *)

MapRow(fk, id, state) == [fk |-> fk, id |-> id, state |-> state]

\* the rows of __kxg_map with the feature key fk
KeyRows(m, fk) == {r \in DOMAIN m : r.fk = fk}
\* the rows of __kxg_map with a NULL feature key and a state other than 0
StubRows(m) == {r \in DOMAIN m : r.state # 0 /\ r.fk = NULL}

\* __kxg_<table>_ins: AFTER INSERT
TriggerIns(m, new_pk) == InsertRow(m, MapRow(NULL, new_pk, 1))

\* __kxg_<table>_upd: AFTER UPDATE
TriggerUpd(m, old_pk, new_pk) ==
    UpdateWhere(m, {r \in DOMAIN m : r.id = old_pk /\ r.state >= 0},
                   [state |-> 1, id |-> new_pk])

\* __kxg_<table>_del: AFTER DELETE
TriggerDel(m, old_pk) ==
    UpdateWhere(m, {r \in DOMAIN m : r.id = old_pk}, [state |-> -1])

_create_triggers == AllTriggers
_drop_triggers == {}

----------------------------------------------------------------------------
(* Trees *)

HeadCommit == commits[head]
HeadTree == HeadCommit.tree

\* features of a tree as user table content (what _checkout_new inserts)
TreePKs(tree) == {tree.feats[fk].id : fk \in DOMAIN tree.feats}
TreeTable(tree) ==
    [p \in TreePKs(tree) |->
        LET fk == CHOOSE k \in DOMAIN tree.feats : tree.feats[k].id = p
        IN  tree.feats[fk].v]
\* one __kxg_map row (fk, pk, 0) per feature
TreeMap(tree) == SetToBag({MapRow(fk, tree.feats[fk].id, 0) : fk \in DOMAIN tree.feats})

\* trees whose features have distinct primary keys (imported from a table)
WellFormed(feats) ==
    \A a, b \in DOMAIN feats : feats[a].id = feats[b].id => a = b
FeatureMaps ==
    {f \in UNION {[S -> [id : PKs, v : Vals]] : S \in SUBSET FKeys} : WellFormed(f)}
Trees == [meta : Metas, feats : FeatureMaps]

----------------------------------------------------------------------------
(* The record a command leaves in `last`: its name, outcome and arguments *)

Outcome(cmd, status, target, force) ==
    [cmd |-> cmd, status |-> status, target |-> target, force |-> force]

NoCommand == Outcome("none", "ok", 0, FALSE)

\* the processes that run commands step by step, and their positions
Procs == {1, 2}
NoDiff == [ok |-> TRUE, META |-> {}, I |-> EmptyBag, D |-> {}, U |-> <<>>]
Idle == [pc |-> "idle", cmd |-> "none", target |-> 0, force |-> FALSE,
         base |-> NoTree, seen |-> NoTree, diff |-> NoDiff, keys |-> <<>>,
         snap |-> <<>>, status |-> "none", conc |-> FALSE]
NoProcs == [p \in Procs |-> Idle]
InFlight(p) == procs[p].pc \notin {"idle", "done"}

NoLfs == [pointer |-> <<>>]
NoGeom == [gpkg |-> <<>>, ewkb |-> <<>>, back |-> <<>>, input |-> <<>>]

\* every statement and command counts against the bound on the behaviour's length
Step == nops < MaxOps /\ nops' = nops + 1 /\ UNCHANGED <<geom, lfs, repo_cfg, table_info, loader>>
\* a statement or a command run from start to end, with no command in flight
Tick == Step /\ (\A p \in Procs : ~InFlight(p)) /\ UNCHANGED procs

----------------------------------------------------------------------------
(* gpkg_contents: the columns that are not part of the meta items *)

NoContents == [min_x |-> NULL, max_x |-> NULL, last_change |-> NULL]

\* (SELECT ST_MinX(geom) FROM <table>) and (SELECT ST_MaxX(geom) FROM <table>):
\* a scalar subquery yields the value of the first row of the scan, the row
\* with the lowest rowid, and NULL when there is no row. Column v is the X
\* ordinate of the row's point geometry.
Extent(t) ==
    IF DOMAIN t = {} THEN [min_x |-> NULL, max_x |-> NULL]
    ELSE [min_x |-> t[Min(DOMAIN t)], max_x |-> t[Min(DOMAIN t)]]

\* the gpkg_contents row after its UPDATE by a checkout of commit c
Contents(t, c) ==
    [min_x |-> Extent(t).min_x, max_x |-> Extent(t).max_x, last_change |-> c.time]

\* the time of a commit created now: later than every commit of the repository
Now == Len(commits) + 1

----------------------------------------------------------------------------
(* User DML on the layer's table; the installed triggers run with it *)

UserInsert(p, val) ==
    /\ wc
    /\ Tick
    /\ p \notin DOMAIN table                 \* PRIMARY KEY constraint
    /\ table' = With(table, p, val)
    /\ kmap' = IF "ins" \in triggers THEN TriggerIns(kmap, p) ELSE kmap
    /\ last' = Outcome("insert", "ok", p, FALSE)
    /\ UNCHANGED <<commits, head, wc, meta_tree, dbmeta, triggers, contents>>

UserUpdate(p, new_pk, val) ==
    /\ wc
    /\ Tick
    /\ p \in DOMAIN table
    /\ new_pk = p \/ new_pk \notin DOMAIN table   \* PRIMARY KEY constraint
    /\ table' = With(Without(table, p), new_pk, val)
    /\ kmap' = IF "upd" \in triggers THEN TriggerUpd(kmap, p, new_pk) ELSE kmap
    /\ last' = Outcome("update", "ok", p, FALSE)
    /\ UNCHANGED <<commits, head, wc, meta_tree, dbmeta, triggers, contents>>

UserDelete(p) ==
    /\ wc
    /\ Tick
    /\ p \in DOMAIN table
    /\ table' = Without(table, p)
    /\ kmap' = IF "del" \in triggers THEN TriggerDel(kmap, p) ELSE kmap
    /\ last' = Outcome("delete", "ok", p, FALSE)
    /\ UNCHANGED <<commits, head, wc, meta_tree, dbmeta, triggers, contents>>

\* the user changes a gpkg_* meta table (description, metadata, ...)
UserEditMeta(m) ==
    /\ wc
    /\ Tick
    /\ m # dbmeta
    /\ dbmeta' = m
    /\ last' = Outcome("edit_meta", "ok", 0, FALSE)
    /\ UNCHANGED <<commits, head, wc, table, kmap, meta_tree, triggers, contents>>

----------------------------------------------------------------------------
(* SQL statements of the checkout engine, on a state [ok, table, kmap];    *)
(* ok = FALSE once a statement raised (constraint failure or a failed      *)
(* rowcount assertion): the rest of the handler is then skipped.           *)

St(ok, t, m) == [ok |-> ok, table |-> t, kmap |-> m]
Fail(s) == [s EXCEPT !.ok = FALSE]

\* rowid SQLite assigns when NULL is inserted into the INTEGER PRIMARY KEY
NextRowid(t) == IF DOMAIN t = {} THEN 1 ELSE (CHOOSE x \in DOMAIN t : \A y \in DOMAIN t : y <= x) + 1

\* sql_insert_feature, and with_map: sql_insert_id (fk, pk, state 0);
\* __kxg_map.feature_id is NOT NULL
InsertFeature(s, fk, f, with_map) ==
    IF ~s.ok THEN s
    ELSE LET pk == IF f.id = NULL THEN NextRowid(s.table) ELSE f.id
         IN  IF pk \in DOMAIN s.table \/ (with_map /\ f.id = NULL) THEN Fail(s)
             ELSE St(TRUE, With(s.table, pk, f.v),
                     IF with_map THEN InsertRow(s.kmap, MapRow(fk, f.id, 0))
                     ELSE s.kmap)

\* columns of the feature whose blobs differ between two versions
Changed(fa, fb) == {c \in Columns : fa[c] # fb[c]}

\* sql_update_feature + sql_update_id: set the changed columns to their
\* values in f; the row is found through __kxg_map by feature key
UpdateFeature(s, fk, cols, f) ==
    IF ~s.ok \/ cols = {} THEN s
    ELSE LET hits == {r \in DOMAIN s.kmap : r.fk = fk}
         IN  IF hits = {} THEN Fail(s)                       \* rowcount 0
             ELSE LET pk == (CHOOSE r \in hits : TRUE).id
                      new_pk == IF "id" \in cols THEN f.id ELSE pk
                  IN  IF \/ pk \notin DOMAIN s.table          \* rowcount 0
                         \/ new_pk = NULL
                         \/ (new_pk # pk /\ new_pk \in DOMAIN s.table)   \* UNIQUE
                         \/ ("id" \in cols /\ Count(s.kmap, KeyRows(s.kmap, fk)) # 1)
                      THEN Fail(s)
                      ELSE St(TRUE,
                              With(Without(s.table, pk), new_pk,
                                   IF "v" \in cols THEN f.v ELSE s.table[pk]),
                              IF "id" \in cols
                              THEN UpdateWhere(s.kmap, KeyRows(s.kmap, fk), [id |-> new_pk])
                              ELSE s.kmap)

\* sql_delete_feature by primary key, sql_delete_id by feature key
DeleteFeature(s, fk, f) ==
    IF ~s.ok THEN s
    ELSE IF f.id \notin DOMAIN s.table \/ Count(s.kmap, KeyRows(s.kmap, fk)) # 1
         THEN Fail(s)                                        \* rowcount assertion
         ELSE St(TRUE, Without(s.table, f.id), DeleteWhere(s.kmap, KeyRows(s.kmap, fk)))

RECURSIVE InsertAll(_, _, _, _)
InsertAll(s, fks, feats, with_map) ==
    IF fks = <<>> THEN s
    ELSE InsertAll(InsertFeature(s, Head(fks), feats[Head(fks)], with_map),
                   Tail(fks), feats, with_map)

RECURSIVE UpdateAll(_, _, _, _)
UpdateAll(s, fks, from, to) ==
    IF fks = <<>> THEN s
    ELSE UpdateAll(UpdateFeature(s, Head(fks),
                                 Changed(from[Head(fks)], to[Head(fks)]), to[Head(fks)]),
                   Tail(fks), from, to)

RECURSIVE DeleteAll(_, _, _)
DeleteAll(s, fks, feats) ==
    IF fks = <<>> THEN s
    ELSE DeleteAll(DeleteFeature(s, Head(fks), feats[Head(fks)]), Tail(fks), feats)

----------------------------------------------------------------------------
(* _checkout_new: materialize a tree into a fresh working copy *)

\* _checkout_new with the triggers created before the features are loaded:
\* every loaded row is also recorded as a user insert
_checkout_new_TriggersFirst(tree) ==
    LET s == InsertAll(St(TRUE, <<>>, EmptyBag), Sorted(DOMAIN tree.feats),
                       tree.feats, TRUE)
    IN  [ok |-> s.ok, table |-> s.table,
         kmap |-> s.kmap (+) SetToBag({MapRow(NULL, p, 1) : p \in DOMAIN s.table}),
         meta_tree |-> tree, dbmeta |-> tree.meta, triggers |-> _create_triggers]

_checkout_new(tree) ==
    LET s == InsertAll(St(TRUE, <<>>, EmptyBag), Sorted(DOMAIN tree.feats),
                       tree.feats, TRUE)
    IN  [ok |-> s.ok, table |-> s.table, kmap |-> s.kmap, meta_tree |-> tree,
         dbmeta |-> tree.meta, triggers |-> _create_triggers]

\* checkout [REFISH] --working-copy PATH --layer L, no working copy configured yet
CheckoutNew(target) ==
    /\ ~wc
    /\ Tick
    /\ LET r == _checkout_new(commits[target].tree)
       IN  /\ table' = IF r.ok THEN r.table ELSE table
           /\ kmap' = IF r.ok THEN r.kmap ELSE kmap
           /\ meta_tree' = IF r.ok THEN r.meta_tree ELSE meta_tree
           /\ dbmeta' = IF r.ok THEN r.dbmeta ELSE dbmeta
           /\ triggers' = IF r.ok THEN r.triggers ELSE triggers
           /\ contents' = IF r.ok THEN Contents(r.table, commits[target]) ELSE contents
           /\ wc' = r.ok              \* kx.workingcopy is set after _checkout_new
           /\ last' = Outcome("checkout_new", IF r.ok THEN "ok" ELSE "error",
                              target, FALSE)
    /\ head' = target                 \* repo.set_head / repo.reset(commit)
    /\ UNCHANGED commits

----------------------------------------------------------------------------
(* _assert_db_tree_match: FALSE when WorkingCopyMismatch is raised *)

\* the check left out: every recorded tree passes
_assert_db_tree_match_Skipped(wc_tree_id, tree) == TRUE

_assert_db_tree_match(wc_tree_id, tree) == wc_tree_id = tree

----------------------------------------------------------------------------
(* _build_db_diff: working copy against the tree recorded in __kxg_meta *)

\* the diff_sql WHERE clause
\* the WHERE clause without `NOT (M.feature_key IS NULL AND M.state < 0)`
DiffRow_KeepInsertThenDelete(r) == r.state # 0

DiffRow(r) == r.state # 0 /\ ~(r.fk = NULL /\ r.state < 0)

\* LEFT OUTER JOIN of a map row with the user table ON feature_id = pk
Joined(t, r) == IF r.id \in DOMAIN t THEN Row(t, r.id) ELSE NullRow

_build_db_diff(t, m, tree, meta) ==
    LET rows == Where(m, {r \in DOMAIN m : DiffRow(r)})
        cand_D == {r.fk : r \in {x \in DOMAIN rows : x.state < 0}}
        cand_I == BagOfAll(LAMBDA r : Joined(t, r),
                           Where(rows, {r \in DOMAIN rows : ~(r.state < 0) /\ r.fk = NULL}))
        rows_U == {x \in DOMAIN rows : ~(x.state < 0) /\ x.fk # NULL}
        cand_U == [fk \in {r.fk : r \in rows_U} |->
                      Joined(t, CHOOSE r \in rows_U : r.fk = fk)]
    IN  [ok   |-> (cand_D \cup DOMAIN cand_U) \subseteq DOMAIN tree.feats,
         META |-> IF meta # tree.meta THEN {<<tree.meta, meta>>} ELSE {},
         I    |-> cand_I,
         D    |-> cand_D,
         U    |-> [fk \in {k \in DOMAIN cand_U :
                            k \in DOMAIN tree.feats => tree.feats[k] # cand_U[k]}
                      |-> cand_U[fk]]]

\* `any(diff.values())`
AnyDiff(d) == d.META # {} \/ d.I # EmptyBag \/ d.D # {} \/ DOMAIN d.U # {}

----------------------------------------------------------------------------
(* commit *)

\* feature keys in use anywhere: uuid4 never returns one of them
UsedKeys ==
    UNION {DOMAIN commits[i].tree.feats : i \in 1..Len(commits)}
        \cup {r.fk : r \in DOMAIN kmap}
FreshKeys == FKeys \ UsedKeys

\* the rows of diff["I"] in some order
RECURSIVE BagToSeq(_)
BagToSeq(bag) ==
    IF bag = EmptyBag THEN <<>>
    ELSE LET r == CHOOSE x \in DOMAIN bag : TRUE
         IN  <<r>> \o BagToSeq(bag (-) SetToBag({r}))

\* the tree written by commit: D sub-trees removed, one new sub-tree per
\* inserted row under keys[i], changed blobs of U replaced, meta replaced
CommitTree(tree, d, ins, keys) ==
    LET kept == DOMAIN tree.feats \ d.D
        added == {keys[i] : i \in 1..Len(ins)}
    IN  [meta  |-> IF d.META # {} THEN (CHOOSE x \in d.META : TRUE)[2] ELSE tree.meta,
         feats |-> [fk \in kept \cup added |->
                      IF fk \in added
                      THEN ins[CHOOSE i \in 1..Len(ins) : keys[i] = fk]
                      ELSE IF fk \in DOMAIN d.U THEN d.U[fk]
                      ELSE tree.feats[fk]]]

\* commit without the final `UPDATE __kxg_map SET state=0`
CommitMap_NoStateReset(m, d, ins, keys) ==
    LET m1 == DeleteWhere(m, {r \in DOMAIN m : r.fk \in d.D})
        m2 == m1 (+) SetToBag({MapRow(keys[i], ins[i].id, 0) : i \in 1..Len(ins)})
    IN  DeleteWhere(m2, KeyRows(m2, NULL))

\* __kxg_map after commit: D rows deleted, (fk, pk, 0) per inserted row,
\* NULL-key rows deleted, every state reset to 0
CommitMap(m, d, ins, keys) ==
    LET m1 == DeleteWhere(m, {r \in DOMAIN m : r.fk \in d.D})
        m2 == m1 (+) SetToBag({MapRow(keys[i], ins[i].id, 0) : i \in 1..Len(ins)})
        m3 == DeleteWhere(m2, KeyRows(m2, NULL))
    IN  UpdateWhere(m3, {r \in DOMAIN m3 : r.state # 0}, [state |-> 0])

\* statements of commit that raise: the rowcount assertion of the D delete,
\* NOT NULL of __kxg_map.feature_id on the insert of a new row's id
CommitRaises(m, d, ins) ==
    \/ \E fk \in d.D : Count(m, KeyRows(m, fk)) # 1
    \/ \E i \in 1..Len(ins) : ins[i].id = NULL

\* `status`: the rows of __kxg_map counted per state,
\* WHERE state != 0 AND NOT (feature_key IS NULL AND state < 0)
StatusRow(r) == r.state # 0 /\ ~(r.fk = NULL /\ r.state < 0)

\* change_counts: state -> (COUNT(feature_key), COUNT(*))
change_counts(m) ==
    [s \in {r.state : r \in {x \in DOMAIN m : StatusRow(x)}} |->
        <<Count(m, {r \in DOMAIN m : StatusRow(r) /\ r.state = s /\ r.fk # NULL}),
          Count(m, {r \in DOMAIN m : StatusRow(r) /\ r.state = s})>>]

\* "Changes in working copy" rather than "Nothing to commit, working copy clean"
StatusReportsChanges(m) == DOMAIN change_counts(m) # {}

\* `status` with a working copy: one SELECT on __kxg_map inside `with db`
Status ==
    /\ wc
    /\ Tick
    /\ last' = Outcome("status", IF StatusReportsChanges(kmap) THEN "changes" ELSE "clean",
                       0, FALSE)
    /\ UNCHANGED <<commits, head, wc, table, kmap, meta_tree, dbmeta, triggers, contents>>

\* `diff`: the changes of the working copy against the tree it was checked
\* out from; reads the working copy and changes nothing
DiffOutcome(status, d) ==
    [cmd |-> "diff", status |-> status, target |-> 0, force |-> FALSE, diff |-> d]

Diff ==
    /\ wc
    /\ Tick
    /\ LET d == _build_db_diff(table, kmap, meta_tree, dbmeta)
       IN  last' = IF ~_assert_db_tree_match(meta_tree, HeadTree)
                   THEN DiffOutcome("mismatch", NoDiff)
                   ELSE IF ~d.ok THEN DiffOutcome("error", NoDiff)
                   ELSE DiffOutcome("ok", d)
    /\ UNCHANGED <<commits, head, wc, table, kmap, meta_tree, dbmeta, triggers, contents>>

Commit ==
    /\ wc
    /\ Tick
    /\ LET d == _build_db_diff(table, kmap, meta_tree, dbmeta)
           ins == BagToSeq(d.I)
       IN  IF ~_assert_db_tree_match(meta_tree, HeadTree)
           THEN /\ last' = Outcome("commit", "mismatch", 0, FALSE)
                /\ UNCHANGED <<commits, head, kmap, meta_tree>>
           ELSE IF ~AnyDiff(d)
           THEN /\ last' = Outcome("commit", "nochanges", 0, FALSE)
                /\ UNCHANGED <<commits, head, kmap, meta_tree>>
           ELSE IF ~d.ok \/ CommitRaises(kmap, d, ins)
           THEN /\ last' = Outcome("commit", "error", 0, FALSE)
                /\ UNCHANGED <<commits, head, kmap, meta_tree>>
           ELSE \E keys \in [1..Len(ins) -> FreshKeys] :
                /\ \A i, j \in 1..Len(ins) : keys[i] = keys[j] => i = j
                /\ LET new_tree == CommitTree(HeadTree, d, ins, keys)
                   IN  /\ commits' = Append(commits, [tree |-> new_tree, parents |-> <<head>>,
                                                    time |-> Now])
                       /\ head' = Len(commits) + 1
                       /\ meta_tree' = new_tree
                       /\ kmap' = CommitMap(kmap, d, ins, keys)
                       /\ last' = Outcome("commit", "ok", 0, FALSE)
    /\ UNCHANGED <<wc, table, dbmeta, triggers, contents>>

----------------------------------------------------------------------------
(* _db_to_index: the base tree overlaid with the rows of __kxg_map whose   *)
(* state is not 0. Rows with a NULL key get a uuid4 path of their own:     *)
(* they only ever show as ADDED entries, counted in `added`.               *)

_db_to_index(t, m, tree, meta) ==
    LET rows == {r \in DOMAIN m : DiffRow(r)}
        removed == {r.fk : r \in {x \in rows : x.fk # NULL /\ x.state = -1}}
        written == {x \in rows : x.fk # NULL /\ x.state # -1}
    IN  [ok    |-> removed \subseteq DOMAIN tree.feats,      \* index.remove raises
         meta  |-> meta,
         feats |-> [fk \in (DOMAIN tree.feats \ removed) \cup {r.fk : r \in written} |->
                      IF \E r \in written : r.fk = fk
                      THEN Joined(t, CHOOSE r \in written : r.fk = fk)
                      ELSE tree.feats[fk]],
         added |-> Count(m, {r \in DOMAIN m : DiffRow(r) /\ r.fk = NULL})]

\* deltas of a diff between two feature maps, by status
DeltaDeleted(a, b) == DOMAIN a \ DOMAIN b
DeltaAdded(a, b) == DOMAIN b \ DOMAIN a
DeltaModified(a, b) == {fk \in DOMAIN a \cap DOMAIN b : a[fk] # b[fk]}

----------------------------------------------------------------------------
(* _checkout_update *)

\* end of the `if is_dirty:` block: "delete added features" by the ids of
\* the NULL-key rows whose state is not 0, delete those rows, and "reset
\* other changes" with state = 0 everywhere
ResetAdded(s) ==
    IF ~s.ok THEN s
    ELSE LET stubs == {r.id : r \in StubRows(s.kmap)}
         IN  St(TRUE,
                [p \in DOMAIN s.table \ stubs |-> s.table[p]],
                UpdateWhere(DeleteWhere(s.kmap, StubRows(s.kmap)),
                            DOMAIN s.kmap, [state |-> 0]))

\* a MODIFIED meta delta has no feature key: the path assertion fails
ResetMeta(s, meta, base_tree) == IF meta # base_tree.meta THEN Fail(s) ELSE s

\* `if is_dirty:` block: undo the recorded edits. The deleted features
\* (DELETED deltas, old side) are re-inserted, the modified ones (MODIFIED
\* deltas) are set back to the old side through __kxg_map.
ResetChanges(t, m, base_tree, meta) ==
    LET index == _db_to_index(t, m, base_tree, meta)
    IN  ResetAdded(ResetMeta(
            UpdateAll(InsertAll(St(index.ok, t, m),
                                Sorted(DeltaDeleted(base_tree.feats, index.feats)),
                                base_tree.feats, FALSE),
                      Sorted(DeltaModified(base_tree.feats, index.feats)),
                      index.feats, base_tree.feats),
            meta, base_tree))

\* feature diff base -> target applied to the working copy:
\* deletes, then updates, then adds, each in path order
ApplyTreeDiff(s, base_tree, tree) ==
    LET a == base_tree.feats
        b == tree.feats
        s1 == DeleteAll(s, Sorted(DeltaDeleted(a, b)), a)
        s2 == UpdateAll(s1, Sorted(DeltaModified(a, b)), a, b)
    IN  InsertAll(s2, Sorted(DeltaAdded(a, b)), b, TRUE)

\* is_dirty: SELECT COUNT(*) FROM __kxg_map WHERE state != 0
IsDirty(m) == Count(m, {r \in DOMAIN m : r.state # 0}) > 0

\* The result [status, table, kmap, meta_tree, triggers, moved] of the update
\* of the working copy (t, m, mt, meta, trg) from base to target. DROP TRIGGER
\* is DDL issued before the first DML statement, so it is not part of the
\* transaction that the `with db` block rolls back.
_checkout_update(t, m, mt, meta, trg, base, tree, force) ==
    LET unchanged == [status |-> "mismatch", table |-> t, kmap |-> m, meta_tree |-> mt,
                      triggers |-> trg, moved |-> FALSE]
        match == _assert_db_tree_match(mt, base)
        base_tree == IF ~match THEN mt ELSE base         \* the tree we _do_ have
        dirty == IsDirty(m)
        s1 == IF dirty THEN ResetChanges(t, m, base_tree, meta) ELSE St(TRUE, t, m)
        s2 == ApplyTreeDiff(s1, base_tree, tree)
    IN  IF ~match /\ ~force THEN unchanged
        ELSE IF dirty /\ ~force
        THEN [unchanged EXCEPT !.status = "dirty", !.triggers = _drop_triggers]
        ELSE IF base_tree.meta # tree.meta
        THEN [unchanged EXCEPT !.status = "meta", !.triggers = _drop_triggers]
        ELSE IF ~s2.ok
        THEN [unchanged EXCEPT !.status = "error", !.triggers = _drop_triggers]
        ELSE [status |-> "ok", table |-> s2.table, kmap |-> s2.kmap, meta_tree |-> tree,
              triggers |-> _create_triggers, moved |-> TRUE]

\* checkout [--force] [REFISH] with a working copy configured:
\* HEAD is set to the target before the working copy is updated
Checkout(target, force) ==
    /\ wc
    /\ Tick
    /\ LET r == _checkout_update(table, kmap, meta_tree, dbmeta, triggers,
                                 HeadTree, commits[target].tree, force)
       IN  /\ table' = r.table
           /\ kmap' = r.kmap
           /\ meta_tree' = r.meta_tree
           /\ triggers' = r.triggers
           /\ contents' = IF r.status = "ok" THEN Contents(r.table, commits[target])
                          ELSE contents
           /\ last' = Outcome("checkout", r.status, target, force)
    /\ head' = target
    /\ UNCHANGED <<commits, wc, dbmeta>>

\* reset: checkout --force HEAD
Reset ==
    /\ wc
    /\ Tick
    /\ LET r == _checkout_update(table, kmap, meta_tree, dbmeta, triggers,
                                 HeadTree, HeadTree, TRUE)
       IN  /\ table' = r.table
           /\ kmap' = r.kmap
           /\ meta_tree' = r.meta_tree
           /\ triggers' = r.triggers
           /\ contents' = IF r.status = "ok" THEN Contents(r.table, HeadCommit)
                          ELSE contents
           /\ last' = Outcome("reset", r.status, head, TRUE)
    /\ UNCHANGED <<commits, head, wc, dbmeta>>

----------------------------------------------------------------------------
(* merge *)

\* a commit and everything reachable from it through parents
RECURSIVE Ancestors(_, _)
Ancestors(cs, i) ==
    {i} \cup UNION {Ancestors(cs, cs[i].parents[k]) : k \in 1..Len(cs[i].parents)}

\* repo.merge_base: a best common ancestor, None (NULL) without one. A commit
\* is created after its parents, so the latest common ancestor is a best one.
merge_base(cs, a, b) ==
    LET common == Ancestors(cs, a) \cap Ancestors(cs, b)
    IN  IF common = {} THEN NULL
        ELSE CHOOSE i \in common : \A j \in common : j <= i

\* fast-forward without regard to the merge base
can_ff_Always(mb, c_base) == TRUE

\* "We're fastforwardable if we're our own common ancestor"
can_ff(mb, c_base) == mb = c_base

\* three-way merge of one blob; NULL is the absent blob
Merge3(a, o, t) ==
    IF o = t THEN [ok |-> TRUE, val |-> o]
    ELSE IF o = a THEN [ok |-> TRUE, val |-> t]
    ELSE IF t = a THEN [ok |-> TRUE, val |-> o]
    ELSE [ok |-> FALSE, val |-> NULL]

\* the blobs of feature fk in a tree
Blobs(tree, fk) == IF fk \in DOMAIN tree.feats THEN tree.feats[fk] ELSE NullRow

\* repo.merge_trees: path by path; [conflicts, tree]
merge_trees(ancestor, ours, theirs) ==
    LET fks == DOMAIN ancestor.feats \cup DOMAIN ours.feats \cup DOMAIN theirs.feats
        m(fk, c) == Merge3(Blobs(ancestor, fk)[c], Blobs(ours, fk)[c], Blobs(theirs, fk)[c])
        meta == Merge3(ancestor.meta, ours.meta, theirs.meta)
        kept == {fk \in fks : m(fk, "id").val # NULL}
    IN  [conflicts |-> ~meta.ok \/ \E fk \in fks, c \in Columns : ~m(fk, c).ok,
         tree |-> [meta |-> meta.val,
                   feats |-> [fk \in kept |-> [c \in Columns |-> m(fk, c).val]]]]

\* what merge leaves in `last`
Merged(status, c, ff, ff_only) ==
    [cmd |-> "merge", status |-> status, target |-> c, force |-> FALSE,
     ff |-> ff, ff_only |-> ff_only]

\* merge: nothing is done ("usage": conflicting parameters; "uptodate";
\* "exit1": not a fast-forward with --ff-only, or conflicts; "error": no
\* merge base)
MergeRefused(status, c, ff, ff_only) ==
    /\ last' = Merged(status, c, ff, ff_only)
    /\ UNCHANGED <<commits, head, table, kmap, meta_tree, triggers, contents>>

\* merge: HEAD is at commit `to` of commits `cs`; update the working copy
MergeUpdate(cs, to, c, ff, ff_only) ==
    LET r == _checkout_update(table, kmap, meta_tree, dbmeta, triggers,
                              HeadTree, cs[to].tree, FALSE)
    IN  /\ commits' = cs
        /\ head' = to
        /\ table' = r.table
        /\ kmap' = r.kmap
        /\ meta_tree' = r.meta_tree
        /\ triggers' = r.triggers
        /\ contents' = IF r.status = "ok" THEN Contents(r.table, cs[to]) ELSE contents
        /\ last' = Merged(r.status, c, ff, ff_only)

\* merge [--ff | --no-ff] [--ff-only] COMMIT, with a working copy configured
Merge(c, ff, ff_only) ==
    /\ wc
    /\ Tick
    /\ LET mb == merge_base(commits, head, c)
           merged == merge_trees(commits[mb].tree, HeadTree, commits[c].tree)
       IN  IF ff_only /\ ~ff THEN MergeRefused("usage", c, ff, ff_only)
           ELSE IF mb = c THEN MergeRefused("uptodate", c, ff, ff_only)
           ELSE IF ff_only /\ ~can_ff(mb, head) THEN MergeRefused("exit1", c, ff, ff_only)
           ELSE IF mb = NULL THEN MergeRefused("error", c, ff, ff_only)   \* repo[None]
           ELSE IF can_ff(mb, head) /\ ff THEN MergeUpdate(commits, c, c, ff, ff_only)
           ELSE IF merged.conflicts THEN MergeRefused("exit1", c, ff, ff_only)
           ELSE MergeUpdate(Append(commits, [tree |-> merged.tree, parents |-> <<head, c>>,
                                             time |-> Now]),
                            Len(commits) + 1, c, ff, ff_only)
    /\ UNCHANGED <<wc, dbmeta>>

----------------------------------------------------------------------------
(* fsck (without --reset-layer) *)

\* the feature check of one joined __kxg_map row against the tree
FeatureError(t, tree, r) ==
    \/ r.id \notin DOMAIN t                      \* Missing <layer> feature
    \/ r.fk = NULL                               \* fkey[:4] raises on None
    \/ r.fk \notin DOMAIN tree.feats             \* not found in repository
    \/ \E c \in Columns : tree.feats[r.fk][c] # Row(t, r.id)[c]   \* value mismatch

\* exit status of fsck: "ok" and "dirty" exit with 0, "abort" and "error"
\* with a non-zero status
fsck(t, m, mt, meta, tree) ==
    LET row_count == Cardinality(DOMAIN t)
        map_row_count == BagCardinality(m)
        map_cur_count == map_row_count - Count(m, {r \in DOMAIN m : r.state = -1})
        index == _db_to_index(t, m, tree, meta)
        num_changes ==
            Cardinality(DeltaDeleted(tree.feats, index.feats))
            + Cardinality(DeltaModified(tree.feats, index.feats))
            + Cardinality(DeltaAdded(tree.feats, index.feats))
            + index.added
            + (IF index.meta # tree.meta THEN 1 ELSE 0)
    IN  IF ~_assert_db_tree_match(mt, tree) THEN "abort"
        ELSE IF map_row_count # row_count /\ map_cur_count # row_count THEN "error"
        ELSE IF ~index.ok THEN "error"
        ELSE IF num_changes # 0 THEN "dirty"
        ELSE IF \E r \in DOMAIN m : FeatureError(t, tree, r) THEN "abort"
        ELSE "ok"

Fsck ==
    /\ wc
    /\ Tick
    /\ last' = Outcome("fsck", fsck(table, kmap, meta_tree, dbmeta, HeadTree),
                       0, FALSE)
    /\ UNCHANGED <<commits, head, wc, table, kmap, meta_tree, dbmeta, triggers, contents>>

----------------------------------------------------------------------------
(* fsck --reset-layer *)

\* DELETE FROM <layer>, with no WHERE clause: the __kxg_<table>_del trigger,
\* when installed, runs for every row
Truncate(t, m, trg) ==
    St(TRUE, <<>>,
       IF "del" \in trg THEN UpdateWhere(m, {r \in DOMAIN m : r.id \in DOMAIN t},
                                         [state |-> -1])
       ELSE m)

\* the working copy as a result record
Kept(ok, t, m, mt, meta, trg) ==
    [ok |-> ok, table |-> t, kmap |-> m, meta_tree |-> mt, dbmeta |-> meta,
     triggers |-> trg]

\* _fsck_reset without the DELETE FROM __kxg_map: the old map rows stay, and
\* the delete trigger marks them
_fsck_reset_KeepMap(t, m, mt, meta, trg, tree, fail) ==
    LET s == Truncate(t, m, trg)
        r == _checkout_new(tree)
    IN  IF r.ok /\ ~fail
        THEN [r EXCEPT !.kmap = s.kmap (+) r.kmap]
        ELSE Kept(FALSE, t, m, mt, meta, trg)

\* _fsck_reset: one explicit transaction (BEGIN ... db.commit()) that empties
\* the side tables, the meta tables and the layer, then loads HEAD's tree with
\* _checkout_new(skip_create=True, db=db) under _suspend_triggers. `fail` is
\* an exception raised before db.commit(): the connection is closed with the
\* transaction open, which rolls it back.
_fsck_reset(t, m, mt, meta, trg, tree, fail) ==
    LET s == Truncate(t, EmptyBag, trg)
        r == _checkout_new(tree)
    IN  IF r.ok /\ ~fail
        THEN [r EXCEPT !.kmap = s.kmap (+) r.kmap]
        ELSE Kept(FALSE, t, m, mt, meta, trg)

FsckReset(fail) ==
    /\ wc
    /\ Tick
    /\ LET r == _fsck_reset(table, kmap, meta_tree, dbmeta, triggers, HeadTree, fail)
       IN  /\ table' = r.table
           /\ kmap' = r.kmap
           /\ meta_tree' = r.meta_tree
           /\ dbmeta' = r.dbmeta
           /\ triggers' = r.triggers
           /\ contents' = IF r.ok THEN Contents(r.table, HeadCommit) ELSE contents
           /\ last' = Outcome("fsck_reset", IF r.ok THEN "ok" ELSE "error", head, FALSE)
    /\ UNCHANGED <<commits, head, wc>>

\* `fsck [--reset-layer]`: with the flag the command returns _fsck_reset's
\* result, without it only the checks run, which read
fsck_command_AlwaysResets(reset_layer, t, m, mt, meta, trg, tree, fail) ==
    _fsck_reset(t, m, mt, meta, trg, tree, fail)

fsck_command(reset_layer, t, m, mt, meta, trg, tree, fail) ==
    IF reset_layer THEN _fsck_reset(t, m, mt, meta, trg, tree, fail)
    ELSE Kept(fsck(t, m, mt, meta, tree) \in {"ok", "dirty"}, t, m, mt, meta, trg)

FsckCommand(reset_layer, fail) ==
    /\ wc
    /\ Tick
    /\ LET r == fsck_command(reset_layer, table, kmap, meta_tree, dbmeta, triggers,
                             HeadTree, fail)
       IN  /\ table' = r.table
           /\ kmap' = r.kmap
           /\ meta_tree' = r.meta_tree
           /\ dbmeta' = r.dbmeta
           /\ triggers' = r.triggers
           /\ contents' = IF reset_layer /\ r.ok THEN Contents(r.table, HeadCommit)
                           ELSE contents
           /\ last' = IF reset_layer
                       THEN Outcome("fsck_reset", IF r.ok THEN "ok" ELSE "error", head, FALSE)
                       ELSE Outcome("fsck", fsck(table, kmap, meta_tree, dbmeta, HeadTree),
                                    0, FALSE)
    /\ UNCHANGED <<commits, head, wc>>

----------------------------------------------------------------------------
(* The commands step by step. A SELECT or PRAGMA runs outside a            *)
(* transaction; sqlite3 opens its implicit transaction at the first        *)
(* INSERT, UPDATE or DELETE, and `with db` commits or rolls back at exit.  *)
(* Positions: "read" after the checks that only read, "writing" while the  *)
(* transaction is open, "git" after create_commit, "loaded" after the      *)
(* first transaction of a new checkout.                                    *)

\* the process holds the database's write lock
Holds(q) == procs[q].pc \in {"writing", "git"}
\* ... in exclusive locking mode, which also shuts out readers
HoldsExclusive(q) == procs[q].pc = "writing" /\ procs[q].cmd # "commit"
WriteLocked(p) == \E q \in Procs \ {p} : Holds(q)
ReadLocked(p) == \E q \in Procs \ {p} : HoldsExclusive(q)

\* the tables of the working copy that a command writes
WorkingCopy ==
    [table |-> table, kmap |-> kmap, meta_tree |-> meta_tree, contents |-> contents]

\* process p starts with record rec: it remembers the working copy it found,
\* and commands that overlap in time are marked
Started(p, rec) ==
    [q \in Procs |->
        IF q = p
        THEN [rec EXCEPT !.conc = \E o \in Procs \ {p} : InFlight(o),
                         !.snap = IF rec.pc = "done" THEN <<>> ELSE WorkingCopy]
        ELSE IF InFlight(q) /\ rec.pc # "done" THEN [procs[q] EXCEPT !.conc = TRUE]
        ELSE procs[q]]
Moved(p, pc) == [procs EXCEPT ![p].pc = pc]
Done(p, status) ==
    [procs EXCEPT ![p] = [Idle EXCEPT !.pc = "done", !.cmd = procs[p].cmd,
                                      !.status = status, !.conc = procs[p].conc]]
Begun(cmd, pc, status) == [Idle EXCEPT !.cmd = cmd, !.pc = pc, !.status = status]

\* commit: _assert_db_tree_match and _build_db_diff
StartCommit(p) ==
    /\ wc /\ ~InFlight(p) /\ Step
    /\ LET d == _build_db_diff(table, kmap, meta_tree, dbmeta)
           rec == IF ReadLocked(p) THEN Begun("commit", "done", "locked")
                  ELSE IF ~_assert_db_tree_match(meta_tree, HeadTree)
                  THEN Begun("commit", "done", "mismatch")
                  ELSE IF ~AnyDiff(d) THEN Begun("commit", "done", "nochanges")
                  ELSE [Begun("commit", "read", "none") EXCEPT !.base = HeadTree, !.diff = d]
       IN  procs' = Started(p, rec)
    /\ last' = Outcome("commit", "started", p, FALSE)
    /\ UNCHANGED <<commits, head, wc, table, kmap, meta_tree, dbmeta, triggers, contents>>

\* commit: the statements on __kxg_map and __kxg_meta, in the transaction
\* that the first of them opens
WriteCommit(p) ==
    /\ procs[p].cmd = "commit" /\ procs[p].pc = "read"
    /\ LET d == procs[p].diff
       IN  procs' = IF WriteLocked(p) THEN Done(p, "locked")
                    ELSE IF ~d.ok \/ CommitRaises(kmap, d, BagToSeq(d.I)) THEN Done(p, "error")
                    ELSE Moved(p, "writing")
    /\ UNCHANGED <<commits, head, wc, table, kmap, meta_tree, dbmeta, triggers, contents,
                   last, nops, geom, lfs,
                   repo_cfg, table_info, loader>>

\* commit: git_index.write_tree and repo.create_commit("HEAD", ...)
GitCommit(p) ==
    /\ procs[p].cmd = "commit" /\ procs[p].pc = "writing"
    /\ LET d == procs[p].diff
           ins == BagToSeq(d.I)
       IN  \E keys \in [1..Len(ins) -> FreshKeys] :
              /\ \A i, j \in 1..Len(ins) : keys[i] = keys[j] => i = j
              /\ commits' = Append(commits, [tree |-> CommitTree(procs[p].base, d, ins, keys),
                                             parents |-> <<head>>, time |-> Now])
              /\ head' = Len(commits) + 1
              /\ procs' = [procs EXCEPT ![p].pc = "git", ![p].keys = keys,
                                        ![p].target = Len(commits) + 1]
    /\ UNCHANGED <<wc, table, kmap, meta_tree, dbmeta, triggers, contents, last, nops, geom, lfs,
                   repo_cfg, table_info, loader>>

\* commit: the transaction commits at the exit of `with db`
DbCommit(p) ==
    /\ procs[p].cmd = "commit" /\ procs[p].pc = "git"
    /\ LET d == procs[p].diff
       IN  /\ kmap' = CommitMap(kmap, d, BagToSeq(d.I), procs[p].keys)
           /\ meta_tree' = commits[procs[p].target].tree
    /\ procs' = Done(p, "ok")
    /\ last' = Outcome("commit", "ok", p, FALSE)
    /\ UNCHANGED <<commits, head, wc, table, dbmeta, triggers, contents, nops, geom, lfs,
                   repo_cfg, table_info, loader>>

\* checkout with a working copy: repo.set_head, then _assert_db_tree_match
StartCheckout(p, target, force) ==
    /\ wc /\ ~InFlight(p) /\ Step
    /\ head' = target
    /\ LET rec == IF ReadLocked(p) THEN Begun("checkout", "done", "locked")
                  ELSE IF ~_assert_db_tree_match(meta_tree, HeadTree) /\ ~force
                  THEN Begun("checkout", "done", "mismatch")
                  ELSE [Begun("checkout", "read", "none") EXCEPT
                           !.base = HeadTree, !.seen = meta_tree,
                           !.target = target, !.force = force]
       IN  procs' = Started(p, rec)
    /\ last' = Outcome("checkout", "started", p, force)
    /\ UNCHANGED <<commits, wc, table, kmap, meta_tree, dbmeta, triggers, contents>>

\* checkout: _suspend_triggers switches to exclusive locking and drops the
\* triggers; no transaction is open, so the drop is committed at once
WriteCheckout(p) ==
    /\ procs[p].cmd = "checkout" /\ procs[p].pc = "read"
    /\ IF WriteLocked(p)
       THEN procs' = Done(p, "locked") /\ UNCHANGED triggers
       ELSE procs' = Moved(p, "writing") /\ triggers' = _drop_triggers
    /\ UNCHANGED <<commits, head, wc, table, kmap, meta_tree, dbmeta, contents, last, nops, geom, lfs,
                   repo_cfg, table_info, loader>>

\* checkout: the rest of _checkout_update, up to the exit of `with db`
FinishCheckout(p) ==
    /\ procs[p].cmd = "checkout" /\ procs[p].pc = "writing"
    /\ LET c == commits[procs[p].target]
           r == _checkout_update(table, kmap, procs[p].seen, dbmeta, triggers,
                                 procs[p].base, c.tree, procs[p].force)
       IN  /\ table' = r.table
           /\ kmap' = r.kmap
           /\ meta_tree' = IF r.status = "ok" THEN r.meta_tree ELSE meta_tree
           /\ triggers' = r.triggers
           /\ contents' = IF r.status = "ok" THEN Contents(r.table, c) ELSE contents
           /\ head' = IF r.status = "ok" THEN procs[p].target ELSE head
           /\ procs' = Done(p, r.status)
           /\ last' = Outcome("checkout", r.status, p, procs[p].force)
    /\ UNCHANGED <<commits, wc, dbmeta, nops, geom, lfs,
                   repo_cfg, table_info, loader>>

\* checkout without a working copy: GDAL creates the GeoPackage, and the
\* first transaction of _checkout_new loads it and commits
StartCheckoutNew(p, target) ==
    /\ ~wc /\ ~InFlight(p) /\ Step
    /\ \A q \in Procs : ~InFlight(q)
    /\ head' = target
    /\ LET r == _checkout_new(commits[target].tree)
       IN  /\ table' = IF r.ok THEN r.table ELSE table
           /\ kmap' = IF r.ok THEN r.kmap ELSE kmap
           /\ meta_tree' = IF r.ok THEN r.meta_tree ELSE meta_tree
           /\ dbmeta' = IF r.ok THEN r.dbmeta ELSE dbmeta
           /\ triggers' = IF r.ok THEN r.triggers ELSE triggers
           /\ contents' = IF r.ok THEN [NoContents EXCEPT !.last_change = commits[target].time]
                          ELSE contents
           /\ procs' = Started(p, IF r.ok
                                  THEN [Begun("checkout_new", "loaded", "none") EXCEPT
                                           !.target = target]
                                  ELSE Begun("checkout_new", "done", "error"))
    /\ last' = Outcome("checkout_new", "started", p, FALSE)
    /\ UNCHANGED <<commits, wc>>

\* new checkout: the UPDATE of the bounds after the `with` block, db.commit()
\* and repo.config["kx.workingcopy"]
FinishCheckoutNew(p) ==
    /\ procs[p].cmd = "checkout_new" /\ procs[p].pc = "loaded"
    /\ contents' = Contents(table, commits[procs[p].target])
    /\ wc' = TRUE
    /\ procs' = Done(p, "ok")
    /\ last' = Outcome("checkout_new", "ok", procs[p].target, FALSE)
    /\ UNCHANGED <<commits, head, table, kmap, meta_tree, dbmeta, triggers, nops, geom, lfs,
                   repo_cfg, table_info, loader>>

\* fsck --reset-layer: exclusive locking, BEGIN and the first DELETE
StartFsckReset(p) ==
    /\ wc /\ ~InFlight(p) /\ Step
    /\ procs' = Started(p, IF WriteLocked(p) THEN Begun("fsck_reset", "done", "locked")
                           ELSE Begun("fsck_reset", "writing", "none"))
    /\ last' = Outcome("fsck_reset", "started", p, FALSE)
    /\ UNCHANGED <<commits, head, wc, table, kmap, meta_tree, dbmeta, triggers, contents>>

\* fsck --reset-layer: the rest of _fsck_reset, up to db.commit()
FinishFsckReset(p) ==
    /\ procs[p].cmd = "fsck_reset" /\ procs[p].pc = "writing"
    /\ LET r == _fsck_reset(table, kmap, meta_tree, dbmeta, triggers, HeadTree, FALSE)
       IN  /\ table' = r.table
           /\ kmap' = r.kmap
           /\ meta_tree' = r.meta_tree
           /\ dbmeta' = r.dbmeta
           /\ triggers' = r.triggers
           /\ contents' = IF r.ok THEN Contents(r.table, HeadCommit) ELSE contents
           /\ procs' = Done(p, IF r.ok THEN "ok" ELSE "error")
           /\ last' = Outcome("fsck_reset", IF r.ok THEN "ok" ELSE "error", p, FALSE)
    /\ UNCHANGED <<commits, head, wc, nops, geom, lfs,
                   repo_cfg, table_info, loader>>

\* the process is killed: its connection closes, an open transaction is
\* rolled back, what was committed stays
Interrupt(p) ==
    /\ InFlight(p)
    /\ procs' = Done(p, "interrupted")
    /\ last' = Outcome(procs[p].cmd, "interrupted", p, FALSE)
    /\ UNCHANGED <<commits, head, wc, table, kmap, meta_tree, dbmeta, triggers, contents,
                   nops, geom, lfs,
                   repo_cfg, table_info, loader>>

----------------------------------------------------------------------------
(* Corruption of a freshly checked-out working copy, behind the triggers'  *)
(* back: one mutation of __kxg_meta.tree, of a __kxg_map row, or of a      *)
(* column value.                                                           *)

Corrupted(kind) == Outcome("corrupt", kind, 0, FALSE)
Fresh == last.cmd = "checkout_new" /\ last.status = "ok"

CorruptTree(tree) ==
    /\ Fresh /\ Tick
    /\ tree # meta_tree
    /\ meta_tree' = tree
    /\ last' = Corrupted("tree")
    /\ UNCHANGED <<commits, head, wc, table, kmap, dbmeta, triggers, contents>>

CorruptMapRow(r, new, kind) ==
    /\ Fresh /\ Tick
    /\ r \in DOMAIN kmap
    /\ new # r
    /\ kmap' = InsertRow(kmap (-) SetToBag({r}), new)
    /\ last' = Corrupted(kind)
    /\ UNCHANGED <<commits, head, wc, table, meta_tree, dbmeta, triggers, contents>>

CorruptMapRemove(r) ==
    /\ Fresh /\ Tick
    /\ r \in DOMAIN kmap
    /\ kmap' = kmap (-) SetToBag({r})
    /\ last' = Corrupted("removed")
    /\ UNCHANGED <<commits, head, wc, table, meta_tree, dbmeta, triggers, contents>>

CorruptValue(p, new_pk, val) ==
    /\ Fresh /\ Tick
    /\ p \in DOMAIN table
    /\ new_pk \notin DOMAIN table \ {p}
    /\ <<new_pk, val>> # <<p, table[p]>>
    /\ table' = With(Without(table, p), new_pk, val)
    /\ last' = Corrupted("value")
    /\ UNCHANGED <<commits, head, wc, kmap, meta_tree, dbmeta, triggers, contents>>

(***************************************************************************)
(* Geometry conversion (src/sno/gpkg.py).  A geometry is a sequence of     *)
(* bytes 0..255.  32-bit values are handled as two 16-bit halves so that   *)
(* the flag bits 0x80000000, 0x40000000 and 0x20000000 stay in range.      *)
(***************************************************************************)
_bo(is_le) == IF is_le # 0 THEN "<" ELSE ">"

Reverse(s) == [i \in 1..Len(s) |-> s[Len(s) + 1 - i]]

\* the bytes of a value, most significant first, laid out in byte order bo
Ordered(bo, be) == IF bo = "<" THEN Reverse(be) ELSE be

\* bytes[offset : offset + n], offsets counted from 0 as in the source
Slice(b, offset, n) == SubSeq(b, offset + 1, offset + n)

\* bytes[offset:]
From(b, offset) == SubSeq(b, offset + 1, Len(b))

\* struct.pack("I"): an unsigned 32-bit value given as its two halves
pack_I(bo, hi, lo) == Ordered(bo, <<hi \div 256, hi % 256, lo \div 256, lo % 256>>)

\* struct.unpack_from("I"): the two halves of an unsigned 32-bit value
unpack_I(bo, b, offset) ==
    LET be == Ordered(bo, Slice(b, offset, 4))
    IN  [hi |-> be[1] * 256 + be[2], lo |-> be[3] * 256 + be[4]]

\* struct.pack("i"): a signed 32-bit value in two's complement
pack_i(bo, n) ==
    IF n >= 0 THEN pack_I(bo, n \div 65536, n % 65536)
    ELSE pack_I(bo, 65535 - ((-n - 1) \div 65536), 65535 - ((-n - 1) % 65536))

\* struct.unpack_from("i")
unpack_i(bo, b, offset) ==
    LET w == unpack_I(bo, b, offset)
    IN  IF w.hi < 32768 THEN w.hi * 65536 + w.lo
        ELSE -((65535 - w.hi) * 65536 + (65535 - w.lo)) - 1

\* IEEE 754 doubles, most significant byte first
One == <<63, 240, 0, 0, 0, 0, 0, 0>>
NaN == <<127, 248, 0, 0, 0, 0, 0, 0>>

\* math.isnan of the double unpacked at offset: exponent all ones, mantissa not zero
isnan(bo, b, offset) ==
    LET be == Ordered(bo, Slice(b, offset, 8))
    IN  /\ be[1] % 128 = 127
        /\ be[2] >= 240
        /\ (be[2] % 16 # 0 \/ \E i \in 3..8 : be[i] # 0)

\* bytes.hex() and bytes.fromhex(): two hexadecimal digits per byte
hex(b) == [i \in 1..(2 * Len(b)) |->
              IF i % 2 = 1 THEN b[(i + 1) \div 2] \div 16 ELSE b[i \div 2] % 16]

fromhex(h) == [i \in 1..(Len(h) \div 2) |-> h[2 * i - 1] * 16 + h[2 * i]]

\* an exception raised instead of a result
Raised(err) == [ok |-> FALSE, err |-> err, wkb_offset |-> 0, is_le |-> 0, srid |-> 0]

EnvelopeBytes_NoM(envelope_typ) ==
    IF envelope_typ = 1 THEN 32 ELSE IF envelope_typ \in 2..4 THEN 48 ELSE 0

\* bytes of envelope that precede the WKB, by envelope contents indicator
EnvelopeBytes(envelope_typ) ==
    CASE envelope_typ = 1 -> 32
      [] envelope_typ \in {2, 3} -> 48
      [] envelope_typ = 4 -> 64
      [] OTHER -> 0

parse_gpkg_geom(gpkg_geom) ==
    LET version      == gpkg_geom[3]
        flags        == gpkg_geom[4]
        is_le        == flags % 2                  \* (flags & 1) != 0, as 0 or 1
        envelope_typ == (flags \div 2) % 8
    IN  IF Len(gpkg_geom) < 2 \/ Slice(gpkg_geom, 0, 2) # <<71, 80>>
        THEN Raised("ValueError")
        ELSE IF Len(gpkg_geom) < 4 THEN Raised("struct.error")
        ELSE IF version # 0 THEN Raised("NotImplementedError")
        ELSE IF (flags \div 32) % 2 # 0 THEN Raised("NotImplementedError")
        ELSE IF envelope_typ > 4 THEN Raised("ValueError")
        ELSE IF Len(gpkg_geom) < 8 THEN Raised("struct.error")
        ELSE [ok |-> TRUE, err |-> "none", wkb_offset |-> 8 + EnvelopeBytes(envelope_typ),
              is_le |-> is_le, srid |-> unpack_i(_bo(is_le), gpkg_geom, 4)]

HasSrid_Never(srid) == FALSE

HasSrid_Any(srid) == srid # 0

\* 0x20000000 * (srid > 0): whether the EWKB carries the SRID
HasSrid(srid) == srid > 0

geom_to_ewkb(gpkg_geom) ==
    LET p             == parse_gpkg_geom(gpkg_geom)
        wkb_is_le     == gpkg_geom[p.wkb_offset + 1]
        bo            == _bo(wkb_is_le)
        wkb_type      == unpack_I(bo, gpkg_geom, p.wkb_offset + 1)
        wkb_geom_type == wkb_type.lo % 1000
        iso_zm        == wkb_type.lo \div 1000
        has_z         == iso_zm \in {1, 3}
        has_m         == iso_zm \in {2, 3}
        flag_bits     == (IF has_z THEN 32768 ELSE 0) + (IF has_m THEN 16384 ELSE 0)
                           + (IF HasSrid(p.srid) THEN 8192 ELSE 0)
    IN  <<wkb_is_le>> \o pack_I(bo, flag_bits, wkb_geom_type)
          \o (IF HasSrid(p.srid) THEN pack_I(bo, p.srid \div 65536, p.srid % 65536) ELSE <<>>)
          \o From(gpkg_geom, p.wkb_offset + 5)

GpkgFlags_NoEndian(is_le, is_empty) == IF is_empty THEN 16 ELSE 0

\* flags of the header written by hexewkb_to_geom: byte order and empty bit
GpkgFlags(is_le, is_empty) == (IF is_le # 0 THEN 1 ELSE 0) + (IF is_empty THEN 16 ELSE 0)

hexewkb_to_geom(hexewkb) ==
    LET ewkb        == fromhex(hexewkb)
        is_le       == ewkb[1]
        bo          == _bo(is_le)
        ewkb_type   == unpack_I(bo, ewkb, 1)
        has_z       == ewkb_type.hi \div 32768 = 1
        has_m       == (ewkb_type.hi \div 16384) % 2 = 1
        has_srid    == (ewkb_type.hi \div 8192) % 2 = 1
        geom_type   == ewkb_type.lo
        wkb_type    == geom_type + (IF has_z THEN 1000 ELSE 0) + (IF has_m THEN 2000 ELSE 0)
        data_offset == IF has_srid THEN 9 ELSE 5
        srid        == IF has_srid
                       THEN unpack_I(bo, ewkb, 5).hi * 65536 + unpack_I(bo, ewkb, 5).lo
                       ELSE 0
        is_empty    == IF wkb_type % 1000 = 1
                       THEN isnan(bo, ewkb, data_offset) /\ isnan(bo, ewkb, data_offset + 8)
                       ELSE unpack_I(bo, ewkb, data_offset) = [hi |-> 0, lo |-> 0]
        flags       == GpkgFlags(is_le, is_empty)
    IN  <<71, 80, 0, flags>> \o pack_i(bo, srid) \o <<is_le>>
          \o pack_I(bo, wkb_type \div 65536, wkb_type % 65536)
          \o From(ewkb, data_offset)

(***************************************************************************)
(* Valid GeoPackage geometries: header byte order, envelope indicator,     *)
(* SRID, WKB byte order, geometry type, Z/M combination, empty or not.     *)
(***************************************************************************)
ByteOrders == {0, 1}
Envelopes  == 0..4
SRIDs      == {-1, 0, 4326}
GeomTypes  == {1, 2}          \* Point, LineString
ZMs        == 0..3            \* XY, XYZ, XYM, XYZM

RECURSIVE Repeat(_, _)
Repeat(s, n) == IF n = 0 THEN <<>> ELSE s \o Repeat(s, n - 1)

\* number of doubles in an envelope of each kind
EnvelopeSize(envelope_typ) ==
    CASE envelope_typ = 1 -> 4 [] envelope_typ \in {2, 3} -> 6
      [] envelope_typ = 4 -> 8 [] OTHER -> 0

Dims(zm) == 2 + (IF zm \in {1, 3} THEN 1 ELSE 0) + (IF zm \in {2, 3} THEN 1 ELSE 0)

\* the WKB body after the type: a point's coordinates, or a count and the points
WkbBody(bo, geom_type, zm, empty) ==
    IF geom_type = 1
    THEN Repeat(Ordered(bo, IF empty THEN NaN ELSE One), Dims(zm))
    ELSE IF empty THEN pack_I(bo, 0, 0)
         ELSE pack_I(bo, 0, 2) \o Repeat(Ordered(bo, One), 2 * Dims(zm))

GPB(is_le, envelope_typ, srid, wkb_is_le, geom_type, zm, empty) ==
    <<71, 80, 0, is_le + 2 * envelope_typ + (IF empty THEN 16 ELSE 0)>>
      \o pack_i(_bo(is_le), srid)
      \o Repeat(Ordered(_bo(is_le), IF empty THEN NaN ELSE One), EnvelopeSize(envelope_typ))
      \o <<wkb_is_le>> \o pack_I(_bo(wkb_is_le), 0, geom_type + 1000 * zm)
      \o WkbBody(_bo(wkb_is_le), geom_type, zm, empty)

GeomInputs ==
    [is_le : ByteOrders, envelope_typ : Envelopes, srid : SRIDs, wkb_is_le : ByteOrders,
     geom_type : GeomTypes, zm : ZMs, empty : BOOLEAN]

AsGPB(i) == GPB(i.is_le, i.envelope_typ, i.srid, i.wkb_is_le, i.geom_type, i.zm, i.empty)

(***************************************************************************)
(* EWKB values as PostGIS writes them: byte order, type word with the Z, M *)
(* and SRID flags, the SRID when flagged, the body.                        *)
(***************************************************************************)
EwkbFlags(zm, has_srid) ==
    (IF zm \in {1, 3} THEN 32768 ELSE 0) + (IF zm \in {2, 3} THEN 16384 ELSE 0)
      + (IF has_srid THEN 8192 ELSE 0)

EWKB(is_le, geom_type, zm, has_srid, srid, empty) ==
    <<is_le>> \o pack_I(_bo(is_le), EwkbFlags(zm, has_srid), geom_type)
      \o (IF has_srid THEN pack_I(_bo(is_le), srid \div 65536, srid % 65536) ELSE <<>>)
      \o WkbBody(_bo(is_le), geom_type, zm, empty)

EwkbInputs ==
    {i \in [is_le : ByteOrders, geom_type : GeomTypes, zm : ZMs, has_srid : BOOLEAN,
            srid : {x \in SRIDs : x >= 0}, empty : BOOLEAN] : i.has_srid \/ i.srid = 0}

AsEWKB(i) == EWKB(i.is_le, i.geom_type, i.zm, i.has_srid, i.srid, i.empty)

\* a geometry without its envelope bytes and envelope indicator
WithoutEnvelope(g) ==
    <<g[1], g[2], g[3], g[4] - 2 * ((g[4] \div 2) % 8)>>
      \o Slice(g, 4, 4) \o From(g, parse_gpkg_geom(g).wkb_offset)

\* geom_to_ewkb applied to the geometry at hand
ToEwkb ==
    /\ geom.gpkg # <<>> /\ geom.ewkb = <<>>
    /\ geom' = [geom EXCEPT !.ewkb = geom_to_ewkb(geom.gpkg)]
    /\ UNCHANGED <<commits, head, wc, table, kmap, meta_tree, dbmeta, triggers, contents,
                   procs, lfs, repo_cfg, table_info, loader, last, nops>>

\* hexewkb_to_geom applied to the hexadecimal text of the EWKB
ToGeom ==
    /\ geom.ewkb # <<>> /\ geom.back = <<>>
    /\ geom' = [geom EXCEPT !.back = hexewkb_to_geom(hex(geom.ewkb))]
    /\ UNCHANGED <<commits, head, wc, table, kmap, meta_tree, dbmeta, triggers, contents,
                   procs, lfs, repo_cfg, table_info, loader, last, nops>>

(***************************************************************************)
(* Byte strings with a whole 8-byte header: any magic, version and flags.  *)
(***************************************************************************)
Magics == {<<71, 80>>, <<71, 88>>, <<80, 71>>}      \* "GP", "GX", "PG"
Versions == {0, 1}
FlagBytes == 0..63

HeaderInputs == [magic : Magics, version : Versions, flags : FlagBytes, srid : SRIDs]

Header(i) == i.magic \o <<i.version, i.flags>> \o pack_i(_bo(i.flags % 2), i.srid)

\* parse_gpkg_geom applied to the byte string at hand
ParseGeom ==
    /\ geom.gpkg # <<>> /\ geom.input \in HeaderInputs /\ geom.parsed.err = "pending"
    /\ geom' = [geom EXCEPT !.parsed = parse_gpkg_geom(geom.gpkg)]
    /\ UNCHANGED <<commits, head, wc, table, kmap, meta_tree, dbmeta, triggers, contents,
                   procs, lfs, repo_cfg, table_info, loader, last, nops>>

\* hexewkb_to_geom applied to the hexadecimal text of an EWKB from PostGIS
FromEwkb ==
    /\ geom.ewkb # <<>> /\ geom.gpkg = <<>>
    /\ geom' = [geom EXCEPT !.gpkg = hexewkb_to_geom(hex(geom.ewkb))]
    /\ UNCHANGED <<commits, head, wc, table, kmap, meta_tree, dbmeta, triggers, contents,
                   procs, lfs, repo_cfg, table_info, loader, last, nops>>

\* geom_to_ewkb applied to the geometry made from the EWKB
ReExport ==
    /\ geom.gpkg # <<>> /\ geom.ewkb # <<>> /\ geom.back = <<>>
    /\ geom' = [geom EXCEPT !.back = geom_to_ewkb(geom.gpkg)]
    /\ UNCHANGED <<commits, head, wc, table, kmap, meta_tree, dbmeta, triggers, contents,
                   procs, lfs, repo_cfg, table_info, loader, last, nops>>

(***************************************************************************)
(* Pointer files (src/kart/lfs_util.py).  A pointer file is the sequence   *)
(* of its lines; a line is a sequence of characters.                       *)
(***************************************************************************)
HashLen == 64

LowerHex == {"0", "1", "2", "3", "4", "5", "6", "7", "8", "9", "a", "b", "c", "d", "e", "f"}
UpperHex == {"A", "B", "C", "D", "E", "F"}

OidPrefix == <<"o", "i", "d", " ", "s", "h", "a", "2", "5", "6", ":">>

\* POINTER_PATTERN: ^oid sha256:([0-9a-fA-F]{64})$ with re.MULTILINE matches a
\* whole line
POINTER_PATTERN(line) ==
    /\ Len(line) = Len(OidPrefix) + HashLen
    /\ SubSeq(line, 1, Len(OidPrefix)) = OidPrefix
    /\ \A i \in (Len(OidPrefix) + 1)..Len(line) : line[i] \in LowerHex \cup UpperHex

None == <<>>

\* search: the first line that matches; group 1 is the text after the prefix
get_hash_from_pointer_file(pointer_file_bytes) ==
    LET matches == {i \in 1..Len(pointer_file_bytes) : POINTER_PATTERN(pointer_file_bytes[i])}
    IN  IF matches = {} THEN None
        ELSE From(pointer_file_bytes[Min(matches)], Len(OidPrefix))

\* pointer files whose oid line is n digits `fill` with one digit `odd` at
\* position pos, after a prefix and before a suffix
Digits(n, fill, odd, pos) == [i \in 1..n |-> IF i = pos THEN odd ELSE fill]

PointerInputs ==
    [before : {<<>>, <<"x">>}, n : {HashLen - 1, HashLen, HashLen + 1}, fill : {"0", "a"},
     odd : {"9", "f", "F", "g"}, last : BOOLEAN, after : {<<>>, <<" ">>}]

PointerFile(i) ==
    << <<"v", "e", "r", "s", "i", "o", "n", " ", "1">>,
       i.before \o OidPrefix
         \o Digits(i.n, i.fill, i.odd, IF i.last THEN i.n ELSE 1) \o i.after,
       <<"s", "i", "z", "e", " ", "1">> >>

\* get_hash_from_pointer_file applied to the pointer file at hand
ExtractHash ==
    /\ lfs.pointer # <<>> /\ lfs.found = "pending"
    /\ LET h == get_hash_from_pointer_file(lfs.pointer)
       IN  lfs' = [lfs EXCEPT !.found = IF h = None THEN "none" ELSE "hash", !.hash = h]
    /\ UNCHANGED <<commits, head, wc, table, kmap, meta_tree, dbmeta, triggers, contents,
                   procs, geom, repo_cfg, table_info, loader, last, nops>>

(***************************************************************************)
(* Point-cloud dataset (src/kart/point_cloud/v1.py): tiles in the working  *)
(* directory, pointer blobs in the tile tree, tile contents in the cache   *)
(* under <gitdir>/lfs/objects.  A tile file is its format and its content. *)
(***************************************************************************)
Las  == [compression |-> "las", optimization |-> "none"]
Laz  == [compression |-> "laz", optimization |-> "none"]
Copc == [compression |-> "laz", optimization |-> "copc"]

Tilenames == {"t1", "t2"}
TileContents == {"a", "b"}
TileFiles == [format : {Las, Laz, Copc}, content : TileContents]

\* hashlib's sha256 as 64 lowercase hexadecimal digits, one value per content
Sha256(content) == Digits(HashLen, "0", content, 1)

\* the external converter: a file of the target format with other bytes
convert_tile_to_format(file, target_format) ==
    [format |-> target_format, content |-> IF file.content = "a" THEN "c" ELSE "d"]

\* "laz" or "laz/copc": the format's name, with its optimization if any
get_format_summary(format) ==
    IF format.optimization = "copc" THEN <<format.compression, "copc">>
    ELSE <<format.compression>>

\* the format a summary names
FormatOf(summary) ==
    [compression |-> summary[1],
     optimization |-> IF Len(summary) > 1 THEN summary[2] ELSE "none"]

\* the pointer file of a dict with the keys version, oid and size
dict_to_pointer_file_bytes(pointer_dict) ==
    << <<"v", "e", "r", "s", "i", "o", "n", " ", "1">>,
       <<"o", "i", "d", " ">> \o pointer_dict.oid,
       <<"s", "i", "z", "e", " ", "1">> >>

\* gitdir / "lfs" / "objects" / lfs_hash[0:2] / lfs_hash[2:4] / lfs_hash
get_local_path_from_lfs_hash(lfs_hash) ==
    <<"lfs", "objects", SubSeq(lfs_hash, 1, 2), SubSeq(lfs_hash, 3, 4), lfs_hash>>

\* {"name": ..., **tile_info, "oid": f"sha256:{oid}", "size": size}
get_tile_summary_from_pc_tile_metadata(name, file) ==
    [name |-> name, format |-> get_format_summary(file.format),
     oid |-> <<"s", "h", "a", "2", "5", "6", ":">> \o Sha256(file.content),
     sourceFormat |-> None]

is_tile_compatible(ds_format, tile_summary) ==
    \/ tile_summary.format = ds_format
    \/ /\ Len(tile_summary.format) > Len(ds_format)
       /\ SubSeq(tile_summary.format, 1, Len(ds_format)) = ds_format

\* the summary of the tile as it will be once converted: no oid yet
pre_conversion_tile_summary(ds_format, tile_summary) ==
    [name |-> tile_summary.name, format |-> ds_format, oid |-> None,
     sourceFormat |-> tile_summary.format]

\* the tile deltas of the working directory against the pointer blobs: a tile
\* is unchanged if its sha256 equals the hash in its pointer
TileDeltas(blobs, workdir) ==
    LET names == {n \in DOMAIN blobs \cup DOMAIN workdir :
                     \/ n \notin DOMAIN blobs
                     \/ n \notin DOMAIN workdir
                     \/ get_hash_from_pointer_file(blobs[n]) # Sha256(workdir[n].content)}
    IN  [n \in names |-> IF n \notin DOMAIN blobs THEN "insert"
                         ELSE IF n \notin DOMAIN workdir THEN "delete" ELSE "update"]

is_clean_slate(blobs, tile_diff) ==
    Cardinality(DOMAIN blobs) - Cardinality({n \in DOMAIN tile_diff : tile_diff[n] # "insert"}) = 0

\* one format as the rewrite flag makes it before the formats are merged
Rewritten(format, rewrite_metadata) ==
    CASE rewrite_metadata = "AS_IF_CONVERTED_TO_COPC" -> Copc
      [] rewrite_metadata = "DROP_FORMAT" -> [compression |-> "", optimization |-> ""]
      [] rewrite_metadata = "DROP_OPTIMIZATION" -> [format EXCEPT !.optimization = "none"]
      [] OTHER -> format

\* the formats merged: the common format, or the list of the formats that differ
rewrite_and_merge_metadata(metadata_list, rewrite_metadata) ==
    LET formats == {Rewritten(f, rewrite_metadata) : f \in metadata_list}
    IN  IF Cardinality(formats) = 1
        THEN [kind |-> "format", format |-> CHOOSE f \in formats : TRUE]
        ELSE [kind |-> "ListOfConflicts", format |-> Las]

RewriteFlag_Never(convert_to_dataset_format, optimization_constraint) ==
    IF optimization_constraint = "copc" THEN "none" ELSE "DROP_OPTIMIZATION"

\* the rewrite flag chosen from the conversion request and the dataset's format
RewriteFlag(convert_to_dataset_format, optimization_constraint) ==
    IF convert_to_dataset_format
    THEN IF optimization_constraint = "copc" THEN "AS_IF_CONVERTED_TO_COPC" ELSE "DROP_FORMAT"
    ELSE IF optimization_constraint = "copc" THEN "none" ELSE "DROP_OPTIMIZATION"

\* the merged format, made invalid when it is LAS
MergedFormat(current, blobs, workdir, tile_diff, convert_to_dataset_format) ==
    LET new_metadata  == {workdir[n].format : n \in {x \in DOMAIN tile_diff : tile_diff[x] # "delete"}}
        metadata_list == new_metadata
                           \cup (IF is_clean_slate(blobs, tile_diff) THEN {} ELSE {current})
        rewrite       == RewriteFlag(convert_to_dataset_format, current.optimization)
        merged        == rewrite_and_merge_metadata(metadata_list, rewrite)
        merged_format == IF new_metadata = {} THEN [kind |-> "format", format |-> current]
                         ELSE IF rewrite = "DROP_FORMAT" THEN [kind |-> "format", format |-> current]
                         ELSE merged
    IN  IF merged_format.kind = "format" /\ merged_format.format.compression = "las"
        THEN [kind |-> "InvalidNewValue", format |-> merged_format.format]
        ELSE merged_format

\* the new value of one inserted or updated tile
tile_summary_from_wc_path(current, name, file, convert_to_dataset_format) ==
    LET tile_summary == get_tile_summary_from_pc_tile_metadata(name, file)
        ds_format    == get_format_summary(current)
    IN  IF convert_to_dataset_format /\ ~is_tile_compatible(ds_format, tile_summary)
        THEN pre_conversion_tile_summary(ds_format, tile_summary)
        ELSE tile_summary

diff_to_working_copy(current, blobs, workdir, convert_to_dataset_format) ==
    LET tile_diff == TileDeltas(blobs, workdir)
    IN  [tile   |-> tile_diff,
         values |-> [n \in {x \in DOMAIN tile_diff : tile_diff[x] # "delete"} |->
                        tile_summary_from_wc_path(current, n, workdir[n],
                                                  convert_to_dataset_format)],
         format |-> IF DOMAIN tile_diff = {} THEN [kind |-> "format", format |-> current]
                    ELSE MergedFormat(current, blobs, workdir, tile_diff,
                                      convert_to_dataset_format)]

\* what apply_tile_diff stores for one inserted or updated tile: the file put
\* in the cache, the path it is put at, and the pointer written for it
Stored(new_value, file) ==
    IF new_value.sourceFormat # None
    THEN LET converted == convert_tile_to_format(file, FormatOf(new_value.format))
             oid       == Sha256(converted.content)
         IN  [file |-> converted, path |-> get_local_path_from_lfs_hash(oid),
              pointer |-> dict_to_pointer_file_bytes(
                              [oid |-> <<"s", "h", "a", "2", "5", "6", ":">> \o oid])]
    ELSE [file |-> file, path |-> get_local_path_from_lfs_hash(new_value.oid),
          pointer |-> dict_to_pointer_file_bytes([oid |-> new_value.oid])]

apply_tile_diff(blobs, workdir, cache, d) ==
    LET written == DOMAIN d.values
        stored  == [n \in written |-> Stored(d.values[n], workdir[n])]
    IN  [blobs   |-> [n \in (DOMAIN blobs \ DOMAIN d.tile) \cup written |->
                         IF n \in written THEN stored[n].pointer ELSE blobs[n]],
         workdir |-> [n \in DOMAIN workdir |->
                         IF n \in written THEN stored[n].file ELSE workdir[n]],
         cache   |-> cache \cup {stored[n].path : n \in written}]

\* tilenames_with_lfs_paths: where each tile's content is looked up
tilenames_with_lfs_paths(blobs) ==
    [n \in DOMAIN blobs |-> get_local_path_from_lfs_hash(get_hash_from_pointer_file(blobs[n]))]

NoTiles == [pointer |-> <<>>, format |-> Laz, blobs |-> <<>>, workdir |-> <<>>, cache |-> {},
            result |-> [status |-> "none", convert |-> FALSE, las |-> FALSE, native |-> {}]]

\* the user puts a tile file into the working directory, or replaces one
PutTile(name, file) ==
    /\ lfs.pointer = <<>> /\ nops < MaxOps /\ nops' = nops + 1
    /\ (name \in DOMAIN lfs.workdir => lfs.workdir[name] # file)
    /\ lfs' = [lfs EXCEPT !.workdir = With(Without(lfs.workdir, name), name, file),
                          !.result = [status |-> "put", convert |-> FALSE, las |-> FALSE,
                                      native |-> {}]]
    /\ UNCHANGED <<commits, head, wc, table, kmap, meta_tree, dbmeta, triggers, contents,
                   procs, geom, repo_cfg, table_info, loader, last>>

\* the user removes a tile file from the working directory
RemoveTile(name) ==
    /\ lfs.pointer = <<>> /\ nops < MaxOps /\ nops' = nops + 1
    /\ name \in DOMAIN lfs.workdir
    /\ lfs' = [lfs EXCEPT !.workdir = Without(lfs.workdir, name),
                          !.result = [status |-> "removed", convert |-> FALSE, las |-> FALSE,
                                      native |-> {}]]
    /\ UNCHANGED <<commits, head, wc, table, kmap, meta_tree, dbmeta, triggers, contents,
                   procs, geom, repo_cfg, table_info, loader, last>>

\* commit of the working directory's tiles: the diff, its validity, the tiles
\* stored and the pointers written
CommitTiles(convert_to_dataset_format) ==
    /\ lfs.pointer = <<>> /\ nops < MaxOps /\ nops' = nops + 1
    /\ LET d      == diff_to_working_copy(lfs.format, lfs.blobs, lfs.workdir,
                                          convert_to_dataset_format)
           r      == apply_tile_diff(lfs.blobs, lfs.workdir, lfs.cache, d)
           status == IF DOMAIN d.tile = {} THEN "NoChanges"
                     ELSE IF d.format.kind = "format" THEN "ok" ELSE d.format.kind
           result == [status |-> status, convert |-> convert_to_dataset_format,
                      las |-> \E n \in DOMAIN d.values : lfs.workdir[n].format = Las,
                      native |-> {n \in DOMAIN d.values : d.values[n].sourceFormat = None}]
       IN  lfs' = IF status = "ok"
                  THEN [lfs EXCEPT !.format = d.format.format, !.blobs = r.blobs,
                                   !.workdir = r.workdir, !.cache = r.cache,
                                   !.result = result]
                  ELSE [lfs EXCEPT !.result = result]
    /\ UNCHANGED <<commits, head, wc, table, kmap, meta_tree, dbmeta, triggers, contents,
                   procs, geom, repo_cfg, table_info, loader, last>>

(***************************************************************************)
(* Working-copy lookup.  The repository configuration maps keys to values; *)
(* kx.workingcopy holds "<fmt>:<path>:<layer>", here the parts between the *)
(* colons; sno.workingcopy.path holds "<scheme>://<path>", here the scheme *)
(* and the rest.  WorkingCopy.open (src/sno/working_copy/base.py) and      *)
(* _get_working_copy (src/snowdrop/cli.py) each read the configuration.    *)
(***************************************************************************)

Pending == [kind |-> "pending"]
NoWorkingCopy == [kind |-> "None"]
NoConfig == [config |-> <<>>, isfile |-> FALSE, opened |-> Pending, legacy |-> Pending]

\* Config.get_int
get_int(value) == IF value = "1" THEN 1 ELSE 2

\* path.startswith("postgresql://")
startswith(path, scheme) == path.scheme = scheme

\* WorkingCopy.open with a fall back to kx.workingcopy
open_FallBack(cfg) ==
    IF "sno.workingcopy.version" \in DOMAIN cfg
    THEN IF get_int(cfg["sno.workingcopy.version"]) # 1
         THEN [kind |-> "NotImplementedError"]
         ELSE IF "sno.workingcopy.path" \notin DOMAIN cfg
              THEN [kind |-> "KeyError"]
              ELSE LET path == cfg["sno.workingcopy.path"]
                   IN  IF startswith(path, "postgresql")
                       THEN [kind |-> "WorkingCopyPostgis", path |-> path]
                       ELSE [kind |-> "WorkingCopy_GPKG_1", path |-> path]
    ELSE IF "kx.workingcopy" \in DOMAIN cfg
         THEN [kind |-> "WorkingCopy_GPKG_1", path |-> cfg["kx.workingcopy"]]
         ELSE NoWorkingCopy

\* WorkingCopy.open(repo)
open(cfg) ==
    IF "sno.workingcopy.version" \in DOMAIN cfg
    THEN IF get_int(cfg["sno.workingcopy.version"]) # 1
         THEN [kind |-> "NotImplementedError"]
         ELSE IF "sno.workingcopy.path" \notin DOMAIN cfg
              THEN [kind |-> "KeyError"]
              ELSE LET path == cfg["sno.workingcopy.path"]
                   IN  IF startswith(path, "postgresql")
                       THEN [kind |-> "WorkingCopyPostgis", path |-> path]
                       ELSE [kind |-> "WorkingCopy_GPKG_1", path |-> path]
    ELSE NoWorkingCopy

\* _get_working_copy(repo); isfile is os.path.isfile of the configured path
_get_working_copy(cfg, isfile) ==
    IF "kx.workingcopy" \in DOMAIN cfg
    THEN LET parts == cfg["kx.workingcopy"]
         IN  IF Len(parts) # 3
             THEN [kind |-> "ValueError"]
             ELSE IF ~isfile
                  THEN [kind |-> "FileNotFoundError"]
                  ELSE [kind |-> "WorkingCopy", fmt |-> parts[1], path |-> parts[2],
                        layer |-> parts[3]]
    ELSE NoWorkingCopy

\* the configurations looked up: each key absent or present
ConfigInputs ==
    [kx : {"absent", "plain", "colon"}, version : {"absent", "1", "2"},
     path : {"absent", "gpkg", "postgresql"}, isfile : BOOLEAN]

Config(i) ==
    LET kx      == IF i.kx = "absent" THEN <<>>
                   ELSE "kx.workingcopy" :>
                        (IF i.kx = "plain" THEN <<"GPKG", "wc.gpkg", "layer">>
                         ELSE <<"GPKG", "C", "wc.gpkg", "layer">>)
        version == IF i.version = "absent" THEN <<>>
                   ELSE "sno.workingcopy.version" :> i.version
        path    == IF i.path = "absent" THEN <<>>
                   ELSE "sno.workingcopy.path" :> [scheme |-> i.path, rest |-> "wc"]
    IN  kx @@ version @@ path

\* a command opens the working copy through WorkingCopy.open
Open ==
    /\ repo_cfg.opened = Pending
    /\ repo_cfg' = [repo_cfg EXCEPT !.opened = open(repo_cfg.config)]
    /\ UNCHANGED <<commits, head, wc, table, kmap, meta_tree, dbmeta, triggers, contents,
                   procs, geom, lfs, table_info, loader, last, nops>>

\* a command gets the working copy through _get_working_copy
GetWorkingCopy ==
    /\ repo_cfg.legacy = Pending
    /\ repo_cfg' = [repo_cfg EXCEPT
                        !.legacy = _get_working_copy(repo_cfg.config, repo_cfg.isfile)]
    /\ UNCHANGED <<commits, head, wc, table, kmap, meta_tree, dbmeta, triggers, contents,
                   procs, geom, lfs, table_info, loader, last, nops>>

(***************************************************************************)
(* Primary key of a table (src/sno/gpkg.py, pk).  PRAGMA table_info gives  *)
(* the table's fields in column order: name, declared type, and pk, which  *)
(* is 0 for a column outside the primary key.                              *)
(***************************************************************************)

MaxCols == 3        \* columns of a table

ColumnTypes == {"INTEGER", "TEXT"}
ColumnNames == <<"c1", "c2", "c3", "c4", "c5">>

\* the first field of type INTEGER, in column order
pk_FirstInteger(fields) ==
    LET declared == {i \in 1..Len(fields) : fields[i].pk # 0}
        integers == {i \in 1..Len(fields) : fields[i].type = "INTEGER"}
    IN  IF declared # {} THEN fields[Min(declared)].name
        ELSE IF integers # {} THEN fields[Min(integers)].name
        ELSE "ValueError"

\* pk(db, table): the loop returns at the first field with pk set; after
\* it, fields holds every field and only fields[0] is looked at
pk(fields) ==
    LET declared == {i \in 1..Len(fields) : fields[i].pk # 0}
    IN  IF declared # {} THEN fields[Min(declared)].name
        ELSE IF Len(fields) = 0 THEN "IndexError"
        ELSE IF fields[1].type = "INTEGER" THEN fields[1].name
        ELSE "ValueError"

\* tables of up to MaxCols columns, each of a type and in or out of the key
TableInfos ==
    UNION {[1..n -> [type : ColumnTypes, pk : {0, 1}]] : n \in 0..MaxCols}

Fields(t) == [i \in 1..Len(t) |-> [name |-> ColumnNames[i], type |-> t[i].type, pk |-> t[i].pk]]

\* the layer of the working copy: primary key id, a value column v
LayerInfo ==
    [fields |-> <<[name |-> "id", type |-> "INTEGER", pk |-> 1],
                  [name |-> "v", type |-> "INTEGER", pk |-> 0]>>,
     found |-> "id"]

\* gpkg.pk is called on the table
FindPk ==
    /\ table_info.found = "pending"
    /\ table_info' = [table_info EXCEPT !.found = pk(table_info.fields)]
    /\ UNCHANGED <<commits, head, wc, table, kmap, meta_tree, dbmeta, triggers, contents,
                   procs, geom, lfs, repo_cfg, loader, last, nops>>

(***************************************************************************)
(* The feature load of _checkout_new (src/snowdrop/cli.py 481-522), one    *)
(* iteration of its loop at a time.  The tree has loader.features          *)
(* features; feature i has feature key i and primary key i.  Each is       *)
(* appended to the two buffers, which are written with executemany when    *)
(* they hold BatchSize rows, and once more after the loop.                 *)
(***************************************************************************)

BatchSize == 1000   \* `if len(wip_features) == 1000:`
MaxBatches == 2     \* full batches of the largest tree loaded

NoLoader == [pc |-> "idle", features |-> 0, feat_count |-> 0,
             wip_features |-> <<>>, wip_idmap |-> <<>>]

\* trees of no feature, of less than a batch, of exactly one batch and more,
\* of several batches and more
FeatureCounts ==
    {0, 1, BatchSize - 1, BatchSize, BatchSize + 1,
     MaxBatches * BatchSize, MaxBatches * BatchSize + 1}

\* _feature_blobs_to_dict of the i-th feature sub-tree
TreeFeature(i) == [id |-> i, v |-> 1]

\* a buffer that is never taken as full
BatchFull_Never(wip_features) == FALSE

\* `len(wip_features) == 1000`
BatchFull(wip_features) == Len(wip_features) = BatchSize

\* db.executemany(sql_insert_features, wip_features)
executemany_features(t, wip_features) ==
    LET ids == {wip_features[i].id : i \in 1..Len(wip_features)}
    IN  t @@ [p \in ids |->
                 wip_features[CHOOSE i \in 1..Len(wip_features) : wip_features[i].id = p].v]

\* db.executemany(sql_insert_ids, wip_idmap); the insert trigger, if it
\* exists, has recorded each row of the batch before
executemany_ids(m, wip_idmap, trg) ==
    m (+) SetToBag({wip_idmap[i] : i \in 1..Len(wip_idmap)})
      (+) (IF "ins" \in trg
           THEN SetToBag({MapRow(NULL, wip_idmap[i].id, 1) : i \in 1..Len(wip_idmap)})
           ELSE EmptyBag)

\* one iteration of the loop over the feature sub-trees
LoadFeature ==
    /\ loader.pc = "loading" /\ loader.feat_count < loader.features
    /\ LET i  == loader.feat_count + 1
           wf == Append(loader.wip_features, TreeFeature(i))
           wi == Append(loader.wip_idmap, MapRow(i, i, 0))
       IN  IF BatchFull(wf)
           THEN /\ table' = executemany_features(table, wf)
                /\ kmap' = executemany_ids(kmap, wi, triggers)
                /\ loader' = [loader EXCEPT !.feat_count = i, !.wip_features = <<>>,
                                             !.wip_idmap = <<>>]
           ELSE /\ loader' = [loader EXCEPT !.feat_count = i, !.wip_features = wf,
                                             !.wip_idmap = wi]
                /\ UNCHANGED <<table, kmap>>
    /\ UNCHANGED <<commits, head, wc, meta_tree, dbmeta, triggers, contents,
                   procs, geom, lfs, repo_cfg, table_info, last, nops>>

\* after the loop: the rows still buffered are written, then _create_triggers
FinishLoad ==
    /\ loader.pc = "loading" /\ loader.feat_count = loader.features
    /\ IF Len(loader.wip_features) # 0
       THEN /\ table' = executemany_features(table, loader.wip_features)
            /\ kmap' = executemany_ids(kmap, loader.wip_idmap, triggers)
       ELSE UNCHANGED <<table, kmap>>
    /\ triggers' = _create_triggers
    /\ loader' = [loader EXCEPT !.pc = "done", !.wip_features = <<>>, !.wip_idmap = <<>>]
    /\ UNCHANGED <<commits, head, wc, meta_tree, dbmeta, contents,
                   procs, geom, lfs, repo_cfg, table_info, last, nops>>

MapRows == [fk : FKeys \cup {NULL}, id : PKs, state : {-1, 0, 1}]

InitFsck ==
    /\ \E tree \in Trees : commits = <<[tree |-> tree, parents |-> <<>>, time |-> 1]>>
    /\ head = 1
    /\ wc = FALSE
    /\ table = <<>>
    /\ kmap = EmptyBag
    /\ meta_tree = NoTree
    /\ dbmeta = NULL
    /\ triggers = {}
    /\ contents = NoContents
    /\ procs = NoProcs
    /\ repo_cfg = NoConfig
    /\ table_info = LayerInfo
    /\ loader = NoLoader
    /\ geom = NoGeom
    /\ lfs = NoLfs
    /\ last = NoCommand
    /\ nops = 0

NextFsck ==
    \/ CheckoutNew(1)
    \/ \E tree \in Trees : CorruptTree(tree)
    \/ \E r \in MapRows, st \in {-1, 0, 1} : CorruptMapRow(r, [r EXCEPT !.state = st], "state")
    \/ \E r \in MapRows, p \in PKs : CorruptMapRow(r, [r EXCEPT !.id = p], "feature_id")
    \/ \E r \in MapRows, fk \in FKeys \cup {NULL} : CorruptMapRow(r, [r EXCEPT !.fk = fk], "feature_key")
    \/ \E r \in MapRows : CorruptMapRemove(r)
    \/ \E p \in PKs, q \in PKs, val \in Vals : CorruptValue(p, q, val)
    \/ Fsck

SpecFsck == InitFsck /\ [][NextFsck]_vars

----------------------------------------------------------------------------
(* Two arbitrary commits with the same meta sub-tree; new checkout and     *)
(* update checkout between them, no user edits.                            *)

InitPair ==
    /\ \E t1 \in Trees, t2 \in Trees :
          /\ t1.meta = t2.meta
          /\ commits = <<[tree |-> t1, parents |-> <<>>, time |-> 1],
                       [tree |-> t2, parents |-> <<1>>, time |-> 2]>>
    /\ head = 1
    /\ wc = FALSE
    /\ table = <<>>
    /\ kmap = EmptyBag
    /\ meta_tree = NoTree
    /\ dbmeta = NULL
    /\ triggers = {}
    /\ contents = NoContents
    /\ procs = NoProcs
    /\ repo_cfg = NoConfig
    /\ table_info = LayerInfo
    /\ loader = NoLoader
    /\ geom = NoGeom
    /\ lfs = NoLfs
    /\ last = NoCommand
    /\ nops = 0

NextPair ==
    \/ CheckoutNew(1)
    \/ \E c \in 1..Len(commits) : Checkout(c, FALSE)

SpecPair == InitPair /\ [][NextPair]_vars

----------------------------------------------------------------------------
(* The repository after import: one commit. *)

InitTree == [meta |-> 1, feats |-> (1 :> [id |-> 1, v |-> 1])]

\* the tree of a second commit: the same feature with another value
NextTree == [meta |-> 1, feats |-> (1 :> [id |-> 1, v |-> 2])]

Init ==
    /\ commits = <<[tree |-> InitTree, parents |-> <<>>, time |-> 1]>>
    /\ head = 1
    /\ wc = FALSE
    /\ table = <<>>
    /\ kmap = EmptyBag
    /\ meta_tree = NoTree
    /\ dbmeta = NULL
    /\ triggers = {}
    /\ contents = NoContents
    /\ procs = NoProcs
    /\ repo_cfg = NoConfig
    /\ table_info = LayerInfo
    /\ loader = NoLoader
    /\ geom = NoGeom
    /\ lfs = NoLfs
    /\ last = NoCommand
    /\ nops = 0

Next ==
    \/ \E p \in PKs, val \in Vals : UserInsert(p, val)
    \/ \E p \in PKs, q \in PKs, val \in Vals : UserUpdate(p, q, val)
    \/ \E p \in PKs : UserDelete(p)
    \/ \E m \in Metas : UserEditMeta(m)
    \/ \E c \in 1..Len(commits) : CheckoutNew(c)
    \/ \E c \in 1..Len(commits), force \in BOOLEAN : Checkout(c, force)
    \/ Reset
    \/ Commit
    \/ Fsck

Spec == Init /\ [][Next]_vars

\* the commands and statements of Spec, and `diff`
NextDiff == Next \/ Diff

SpecDiff == Init /\ [][NextDiff]_vars

\* the user's statements and the commands that write, with the commands
\* that only read: diff, status and fsck
NextReadOnly ==
    \/ \E p \in PKs, val \in Vals : UserInsert(p, val)
    \/ \E p \in PKs, q \in PKs, val \in Vals : UserUpdate(p, q, val)
    \/ \E p \in PKs : UserDelete(p)
    \/ \E m \in Metas : UserEditMeta(m)
    \/ \E c \in 1..Len(commits) : CheckoutNew(c)
    \/ \E c \in 1..Len(commits), force \in BOOLEAN : Checkout(c, force)
    \/ Commit
    \/ Diff
    \/ Status
    \/ \E reset_layer \in BOOLEAN, fail \in BOOLEAN : FsckCommand(reset_layer, fail)

SpecReadOnly == Init /\ [][NextReadOnly]_vars

----------------------------------------------------------------------------
(* A repository of two commits that differ in a meta item only; new and    *)
(* update checkout, user inserts and commit.                               *)

InitInsert ==
    /\ commits = <<[tree |-> InitTree, parents |-> <<>>, time |-> 1],
                   [tree |-> [InitTree EXCEPT !.meta = 2], parents |-> <<1>>, time |-> 2]>>
    /\ head = 1
    /\ wc = FALSE
    /\ table = <<>>
    /\ kmap = EmptyBag
    /\ meta_tree = NoTree
    /\ dbmeta = NULL
    /\ triggers = {}
    /\ contents = NoContents
    /\ procs = NoProcs
    /\ repo_cfg = NoConfig
    /\ table_info = LayerInfo
    /\ loader = NoLoader
    /\ geom = NoGeom
    /\ lfs = NoLfs
    /\ last = NoCommand
    /\ nops = 0

NextInsert ==
    \/ \E p \in PKs, val \in Vals : UserInsert(p, val)
    \/ \E c \in 1..Len(commits) : CheckoutNew(c)
    \/ \E c \in 1..Len(commits), force \in BOOLEAN : Checkout(c, force)
    \/ Commit

SpecInsert == InitInsert /\ [][NextInsert]_vars

----------------------------------------------------------------------------
(* Specification of user DML, new checkout and reset only *)

NextReset ==
    \/ \E p \in PKs, val \in Vals : UserInsert(p, val)
    \/ \E p \in PKs, q \in PKs, val \in Vals : UserUpdate(p, q, val)
    \/ \E p \in PKs : UserDelete(p)
    \/ \E c \in 1..Len(commits) : CheckoutNew(c)
    \/ Reset

SpecReset == Init /\ [][NextReset]_vars

----------------------------------------------------------------------------
(* Specification of fsck --reset-layer: a working copy that the user edits *)
(* or that was corrupted, then rebuilt from HEAD                           *)

NextRepair ==
    \/ CheckoutNew(1)
    \/ \E p \in PKs, val \in Vals : UserInsert(p, val)
    \/ \E p \in PKs : UserDelete(p)
    \/ \E m \in Metas : UserEditMeta(m)
    \/ \E tree \in {NoTree, NextTree} : CorruptTree(tree)
    \/ \E r \in MapRows, new \in MapRows : CorruptMapRow(r, new, "row")
    \/ \E r \in MapRows : CorruptMapRemove(r)
    \/ \E p \in PKs, q \in PKs, val \in Vals : CorruptValue(p, q, val)
    \/ Commit
    \/ \E fail \in BOOLEAN : FsckReset(fail)

SpecRepair == Init /\ [][NextRepair]_vars

----------------------------------------------------------------------------
(* Two processes run commands step by step against one working copy, on a  *)
(* repository of two commits with the same meta items.                     *)

InitProcs ==
    /\ commits = <<[tree |-> InitTree, parents |-> <<>>, time |-> 1],
                   [tree |-> NextTree, parents |-> <<1>>, time |-> 2]>>
    /\ head = 1
    /\ wc = FALSE
    /\ table = <<>>
    /\ kmap = EmptyBag
    /\ meta_tree = NoTree
    /\ dbmeta = NULL
    /\ triggers = {}
    /\ contents = NoContents
    /\ procs = NoProcs
    /\ repo_cfg = NoConfig
    /\ table_info = LayerInfo
    /\ loader = NoLoader
    /\ geom = NoGeom
    /\ lfs = NoLfs
    /\ last = NoCommand
    /\ nops = 0

NextProcs ==
    \/ \E p \in PKs, val \in Vals : UserInsert(p, val)
    \/ \E p \in PKs, q \in PKs, val \in Vals : UserUpdate(p, q, val)
    \/ \E p \in PKs : UserDelete(p)
    \/ \E c \in 1..Len(commits) : CheckoutNew(c)
    \/ \E p \in Procs : StartCommit(p)
    \/ \E p \in Procs : WriteCommit(p)
    \/ \E p \in Procs : GitCommit(p)
    \/ \E p \in Procs : DbCommit(p)
    \/ \E p \in Procs, c \in 1..Len(commits), force \in BOOLEAN : StartCheckout(p, c, force)
    \/ \E p \in Procs : WriteCheckout(p)
    \/ \E p \in Procs : FinishCheckout(p)
    \/ \E p \in Procs : StartFsckReset(p)
    \/ \E p \in Procs : FinishFsckReset(p)

SpecProcs == InitProcs /\ [][NextProcs]_vars

----------------------------------------------------------------------------
(* Commands run from start to end on the repository of two commits: user   *)
(* DML, new checkout, update checkout with and without --force, commit.    *)

NextSwitch ==
    \/ \E p \in PKs, val \in Vals : UserInsert(p, val)
    \/ \E p \in PKs, q \in PKs, val \in Vals : UserUpdate(p, q, val)
    \/ \E p \in PKs : UserDelete(p)
    \/ \E c \in 1..Len(commits) : CheckoutNew(c)
    \/ \E c \in 1..Len(commits), force \in BOOLEAN : Checkout(c, force)
    \/ Commit

SpecSwitch == InitProcs /\ [][NextSwitch]_vars

----------------------------------------------------------------------------
(* Diverging histories: user DML, new checkout, commit and merge *)

NextMerge ==
    \/ \E p \in PKs, val \in Vals : UserInsert(p, val)
    \/ \E p \in PKs, q \in PKs, val \in Vals : UserUpdate(p, q, val)
    \/ \E p \in PKs : UserDelete(p)
    \/ \E c \in 1..Len(commits) : CheckoutNew(c)
    \/ Commit
    \/ \E c \in 1..Len(commits), ff \in BOOLEAN, ff_only \in BOOLEAN : Merge(c, ff, ff_only)

SpecMerge == InitProcs /\ [][NextMerge]_vars

----------------------------------------------------------------------------
(* One process runs commands step by step and can be killed at any of its  *)
(* positions; the user edits between commands.                             *)

NextInterrupt ==
    \/ \E p \in PKs, val \in Vals : UserInsert(p, val)
    \/ \E p \in PKs, q \in PKs, val \in Vals : UserUpdate(p, q, val)
    \/ \E p \in PKs : UserDelete(p)
    \/ \E c \in 1..Len(commits) : StartCheckoutNew(1, c)
    \/ FinishCheckoutNew(1)
    \/ StartCommit(1)
    \/ WriteCommit(1)
    \/ GitCommit(1)
    \/ DbCommit(1)
    \/ \E c \in 1..Len(commits), force \in BOOLEAN : StartCheckout(1, c, force)
    \/ WriteCheckout(1)
    \/ FinishCheckout(1)
    \/ StartFsckReset(1)
    \/ FinishFsckReset(1)
    \/ Interrupt(1)

SpecInterrupt == InitProcs /\ [][NextInterrupt]_vars

(***************************************************************************)
(* Geometry round trip: every valid geometry through geom_to_ewkb and      *)
(* back through hexewkb_to_geom.                                           *)
(***************************************************************************)
InitGeom ==
    /\ commits = <<[tree |-> InitTree, parents |-> <<>>, time |-> 1]>>
    /\ head = 1
    /\ wc = FALSE
    /\ table = <<>>
    /\ kmap = EmptyBag
    /\ meta_tree = NoTree
    /\ dbmeta = NULL
    /\ triggers = {}
    /\ contents = NoContents
    /\ procs = NoProcs
    /\ repo_cfg = NoConfig
    /\ table_info = LayerInfo
    /\ loader = NoLoader
    /\ geom \in {[gpkg |-> AsGPB(i), ewkb |-> <<>>, back |-> <<>>, input |-> i] :
                     i \in GeomInputs}
    /\ lfs = NoLfs
    /\ last = NoCommand
    /\ nops = 0

NextGeom ==
    \/ ToEwkb
    \/ ToGeom

SpecGeom == InitGeom /\ [][NextGeom]_vars

(***************************************************************************)
(* EWKB import: every EWKB through hexewkb_to_geom and back through        *)
(* geom_to_ewkb.                                                           *)
(***************************************************************************)
InitEwkb ==
    /\ commits = <<[tree |-> InitTree, parents |-> <<>>, time |-> 1]>>
    /\ head = 1
    /\ wc = FALSE
    /\ table = <<>>
    /\ kmap = EmptyBag
    /\ meta_tree = NoTree
    /\ dbmeta = NULL
    /\ triggers = {}
    /\ contents = NoContents
    /\ procs = NoProcs
    /\ repo_cfg = NoConfig
    /\ table_info = LayerInfo
    /\ loader = NoLoader
    /\ geom \in {[gpkg |-> <<>>, ewkb |-> AsEWKB(i), back |-> <<>>, input |-> i] :
                     i \in EwkbInputs}
    /\ lfs = NoLfs
    /\ last = NoCommand
    /\ nops = 0

NextEwkb ==
    \/ FromEwkb
    \/ ReExport

SpecEwkb == InitEwkb /\ [][NextEwkb]_vars

(***************************************************************************)
(* Header validation: parse_gpkg_geom on every header.                     *)
(***************************************************************************)
InitParse ==
    /\ commits = <<[tree |-> InitTree, parents |-> <<>>, time |-> 1]>>
    /\ head = 1
    /\ wc = FALSE
    /\ table = <<>>
    /\ kmap = EmptyBag
    /\ meta_tree = NoTree
    /\ dbmeta = NULL
    /\ triggers = {}
    /\ contents = NoContents
    /\ procs = NoProcs
    /\ repo_cfg = NoConfig
    /\ table_info = LayerInfo
    /\ loader = NoLoader
    /\ geom \in {[gpkg |-> Header(i), ewkb |-> <<>>, back |-> <<>>, input |-> i,
                    parsed |-> Raised("pending")] : i \in HeaderInputs}
    /\ lfs = NoLfs
    /\ last = NoCommand
    /\ nops = 0

NextParse == ParseGeom

SpecParse == InitParse /\ [][NextParse]_vars

(***************************************************************************)
(* Pointer files: get_hash_from_pointer_file on every pointer file.        *)
(***************************************************************************)
InitPointer ==
    /\ commits = <<[tree |-> InitTree, parents |-> <<>>, time |-> 1]>>
    /\ head = 1
    /\ wc = FALSE
    /\ table = <<>>
    /\ kmap = EmptyBag
    /\ meta_tree = NoTree
    /\ dbmeta = NULL
    /\ triggers = {}
    /\ contents = NoContents
    /\ procs = NoProcs
    /\ repo_cfg = NoConfig
    /\ table_info = LayerInfo
    /\ loader = NoLoader
    /\ geom = NoGeom
    /\ lfs \in {[pointer |-> PointerFile(i), found |-> "pending", hash |-> None,
                   input |-> i] : i \in PointerInputs}
    /\ last = NoCommand
    /\ nops = 0

NextPointer == ExtractHash

SpecPointer == InitPointer /\ [][NextPointer]_vars

(***************************************************************************)
(* Point-cloud working directory: the user adds, replaces and removes      *)
(* tiles and commits, with or without --convert-to-dataset-format.         *)
(***************************************************************************)
InitTiles ==
    /\ commits = <<[tree |-> InitTree, parents |-> <<>>, time |-> 1]>>
    /\ head = 1
    /\ wc = FALSE
    /\ table = <<>>
    /\ kmap = EmptyBag
    /\ meta_tree = NoTree
    /\ dbmeta = NULL
    /\ triggers = {}
    /\ contents = NoContents
    /\ procs = NoProcs
    /\ repo_cfg = NoConfig
    /\ table_info = LayerInfo
    /\ loader = NoLoader
    /\ geom = NoGeom
    /\ lfs \in {[NoTiles EXCEPT !.format = f] : f \in {Laz, Copc}}
    /\ last = NoCommand
    /\ nops = 0

NextTiles ==
    \/ \E name \in Tilenames, file \in TileFiles : PutTile(name, file)
    \/ \E name \in Tilenames : RemoveTile(name)
    \/ \E convert \in BOOLEAN : CommitTiles(convert)

SpecTiles == InitTiles /\ [][NextTiles]_vars

InitConfig ==
    /\ commits = <<[tree |-> InitTree, parents |-> <<>>, time |-> 1]>>
    /\ head = 1
    /\ wc = FALSE
    /\ table = <<>>
    /\ kmap = EmptyBag
    /\ meta_tree = NoTree
    /\ dbmeta = NULL
    /\ triggers = {}
    /\ contents = NoContents
    /\ procs = NoProcs
    /\ repo_cfg \in {[config |-> Config(i), isfile |-> i.isfile, opened |-> Pending,
                      legacy |-> Pending] : i \in ConfigInputs}
    /\ table_info = LayerInfo
    /\ loader = NoLoader
    /\ geom = NoGeom
    /\ lfs = NoLfs
    /\ last = NoCommand
    /\ nops = 0

NextConfig == Open \/ GetWorkingCopy

SpecConfig == InitConfig /\ [][NextConfig]_vars

InitPk ==
    /\ commits = <<[tree |-> InitTree, parents |-> <<>>, time |-> 1]>>
    /\ head = 1
    /\ wc = FALSE
    /\ table = <<>>
    /\ kmap = EmptyBag
    /\ meta_tree = NoTree
    /\ dbmeta = NULL
    /\ triggers = {}
    /\ contents = NoContents
    /\ procs = NoProcs
    /\ repo_cfg = NoConfig
    /\ table_info \in {[fields |-> Fields(t), found |-> "pending"] : t \in TableInfos}
    /\ loader = NoLoader
    /\ geom = NoGeom
    /\ lfs = NoLfs
    /\ last = NoCommand
    /\ nops = 0

NextPk == FindPk

SpecPk == InitPk /\ [][NextPk]_vars

InitLoad ==
    /\ commits = <<[tree |-> InitTree, parents |-> <<>>, time |-> 1]>>
    /\ head = 1
    /\ wc = FALSE
    /\ table = <<>>
    /\ kmap = EmptyBag
    /\ meta_tree = NoTree
    /\ dbmeta = NULL
    /\ triggers = {}
    /\ contents = NoContents
    /\ procs = NoProcs
    /\ repo_cfg = NoConfig
    /\ table_info = LayerInfo
    /\ loader \in {[NoLoader EXCEPT !.pc = "loading", !.features = n] : n \in FeatureCounts}
    /\ geom = NoGeom
    /\ lfs = NoLfs
    /\ last = NoCommand
    /\ nops = 0

NextLoad == LoadFeature \/ FinishLoad

SpecLoad == InitLoad /\ [][NextLoad]_vars

----------------------------------------------------------------------------
(* Claims *)

AllClean(m) == \A r \in DOMAIN m : r.state = 0
NoNullKey(m) == \A r \in DOMAIN m : r.fk # NULL

\* C1 (I1): outside a transaction the user table is the tree recorded in
\* __kxg_meta with the changes recorded in __kxg_map applied: every user row
\* is either unchanged from that tree (a state 0 row of its feature) or covered
\* by a state 1 row, and every feature of the tree is either unchanged in the
\* table or covered by a row of its key whose state is not 0.
C1_TableIsTreePlusRecordedChanges ==
    wc =>
      /\ \A p \in DOMAIN table :
           \E r \in DOMAIN kmap :
              /\ r.id = p
              /\ \/ r.state = 1
                 \/ /\ r.state = 0
                    /\ r.fk \in DOMAIN meta_tree.feats
                    /\ meta_tree.feats[r.fk] = Row(table, p)
      /\ \A fk \in DOMAIN meta_tree.feats :
           \E r \in DOMAIN kmap :
              /\ r.fk = fk
              /\ \/ r.state # 0
                 \/ /\ r.id = meta_tree.feats[fk].id
                    /\ r.id \in DOMAIN table
                    /\ Row(table, r.id) = meta_tree.feats[fk]

\* C2 (I2) requires exactly one __kxg_map row per live user row with the row's
\* primary key as feature_id; hence at least one: every live user row has a
\* __kxg_map row whose feature_id is its primary key.
C2_LiveRowHasMapRow ==
    wc => \A p \in DOMAIN table : \E r \in DOMAIN kmap : r.id = p

\* C3: after a successful commit every __kxg_map row has state 0, none has a
\* NULL feature_key, and __kxg_meta.tree is the tree just written, which is the
\* tree of the new HEAD commit.
C3_AfterCommitMapClean ==
    (last.cmd = "commit" /\ last.status = "ok") =>
      /\ AllClean(kmap)
      /\ NoNullKey(kmap)
      /\ head = Len(commits)
      /\ meta_tree = commits[Len(commits)].tree
      /\ meta_tree = HeadTree

\* C3 is exercised by a commit that removed the imported feature and added a new one
C3_Witness ==
    /\ last.cmd = "commit" /\ last.status = "ok"
    /\ 1 \notin DOMAIN HeadTree.feats
    /\ DOMAIN HeadTree.feats # {}
    /\ kmap # EmptyBag

\* C4: after a fresh checkout of T1, the update checkout to a T2 with the same
\* meta succeeds and leaves the user table a fresh checkout of T2 would create.
C4_UpdateCheckoutEqualsFresh ==
    [][(last.cmd = "checkout_new" /\ last.status = "ok" /\ last'.cmd = "checkout")
         => /\ last'.status = "ok"
            /\ table' = _checkout_new(commits[last'.target].tree).table]_vars

\* C5: after any sequence of user inserts, updates and deletes, reset succeeds
\* and leaves the user table with the rows of HEAD's tree, every __kxg_map row
\* with state 0 and none with a NULL feature_key.
C5_ResetRestoresHead ==
    last.cmd = "reset" =>
      /\ last.status = "ok"
      /\ table = TreeTable(HeadTree)
      /\ AllClean(kmap)
      /\ NoNullKey(kmap)

\* the trees of the repository's commits
RepoTrees(cs) == {cs[i].tree : i \in 1..Len(cs)}

C7_InsertThenCommit ==
    [][(/\ last.cmd = "insert"
        /\ meta_tree = HeadTree
        /\ dbmeta = HeadTree.meta
        /\ WellFormed(HeadTree.feats)
        /\ last.target \in DOMAIN table
        /\ Without(table, last.target) = TreeTable(HeadTree)
        /\ kmap \in {TreeMap(HeadTree),
                     TreeMap(HeadTree) (+) SetToBag({MapRow(NULL, last.target, 1)})}
        /\ last'.cmd = "commit")
         => /\ last'.status = "ok"
            /\ head' = Len(commits) + 1
            /\ Len(commits') = Len(commits) + 1
            /\ commits'[head'].parents = <<head>>
            /\ HeadTree'.meta = HeadTree.meta
            /\ \E fk \in FKeys \ UsedKeys :
                 /\ DOMAIN HeadTree'.feats = DOMAIN HeadTree.feats \cup {fk}
                 /\ HeadTree'.feats[fk] = Row(table, last.target)
                 /\ \A k \in DOMAIN HeadTree.feats : HeadTree'.feats[k] = HeadTree.feats[k]
                 /\ Count(kmap', {r \in DOMAIN kmap' : r.id = last.target}) = 1
                 /\ MapRow(fk, last.target, 0) \in DOMAIN kmap']_vars

\* C8: on a clean working copy at HEAD's tree, a checkout of a commit whose
\* meta differs fails with the meta/schema error and leaves the user table,
\* __kxg_map, __kxg_meta.tree and the three triggers as they were.
C8_MetaDiffLeavesWorkingCopy ==
    [][(/\ wc
        /\ meta_tree = HeadTree
        /\ AllClean(kmap)
        /\ last'.cmd = "checkout"
        /\ commits[last'.target].tree.meta # HeadTree.meta)
         => /\ last'.status = "meta"
            /\ table' = table
            /\ kmap' = kmap
            /\ meta_tree' = meta_tree
            /\ triggers' = triggers]_vars

\* C9: on a working copy at HEAD's tree with a __kxg_map row whose state is not
\* 0, a checkout without force is refused as dirty and leaves the user table,
\* __kxg_map and __kxg_meta.tree unchanged; with force (and no meta difference)
\* it succeeds and leaves the target tree's rows and a clean __kxg_map.
C9_DirtyCheckout ==
    [][(/\ wc
        /\ meta_tree = HeadTree
        /\ dbmeta = HeadTree.meta
        /\ ~AllClean(kmap)
        /\ last'.cmd = "checkout")
         => IF ~last'.force
            THEN /\ last'.status = "dirty"
                 /\ table' = table
                 /\ kmap' = kmap
                 /\ meta_tree' = meta_tree
            ELSE commits[last'.target].tree.meta = HeadTree.meta
                   => /\ last'.status = "ok"
                      /\ table' = _checkout_new(commits[last'.target].tree).table
                      /\ AllClean(kmap')
                      /\ meta_tree' = commits[last'.target].tree]_vars

\* C10: fsck succeeds on a freshly checked-out layer, and exits with a non-zero
\* status after one corrupting mutation of __kxg_meta.tree, of a __kxg_map row
\* or of a column value.
C10_FsckDetectsCorruption ==
    [][(last'.cmd = "fsck")
         => /\ last.cmd = "checkout_new" => last'.status = "ok"
            /\ last.cmd = "corrupt" => last'.status \in {"abort", "error"}]_vars

\* C11: a successful fsck --reset-layer, from any state of the working copy,
\* leaves the user table with exactly the features of HEAD's tree, exactly one
\* __kxg_map row (feature key, primary key, 0) per feature, __kxg_meta.tree
\* equal to HEAD's tree, the meta tables of HEAD's tree and the three triggers
\* installed; a failed one leaves the working copy as it was.
C11_FsckResetRebuilds ==
    [][(last'.cmd = "fsck_reset") =>
          IF last'.status = "ok"
          THEN /\ table' = TreeTable(HeadTree)
               /\ kmap' = TreeMap(HeadTree)
               /\ BagCardinality(kmap') = Cardinality(DOMAIN HeadTree.feats)
               /\ meta_tree' = HeadTree
               /\ dbmeta' = HeadTree.meta
               /\ triggers' = AllTriggers
          ELSE UNCHANGED <<table, kmap, meta_tree, dbmeta, triggers>>]_vars

\* a rebuilt working copy with features, after the fresh one was edited or
\* corrupted
C11_Witness ==
    /\ last.cmd = "fsck_reset" /\ last.status = "ok"
    /\ nops >= 3
    /\ DOMAIN table # {}
    /\ kmap = TreeMap(HeadTree)

\* C12: of two state-mutating commands that run concurrently against the
\* same working copy, one completes and the other fails with a lock error
\* and changes nothing, so their writes never interleave. In particular, if
\* both have completed, the working copy is what one command after the
\* other leaves: the recorded tree is HEAD's tree, the user table holds its
\* features and __kxg_map has one row of state 0 per feature.
C12_ConcurrentWritersExclude ==
    \A p, q \in Procs :
        (p # q /\ procs[p].conc /\ procs[q].conc
             /\ procs[p].pc = "done" /\ procs[q].pc = "done"
             /\ procs[p].status = "ok" /\ procs[q].status = "ok")
        => /\ meta_tree = HeadTree
           /\ table = TreeTable(meta_tree)
           /\ kmap = TreeMap(meta_tree)

\* C13: a state-mutating command that is interrupted leaves the user table,
\* __kxg_map, __kxg_meta and gpkg_contents exactly as they were before the
\* command started.
C13_InterruptRollsBack ==
    [][\A p \in Procs :
          (InFlight(p) /\ procs'[p].status = "interrupted")
          => WorkingCopy' = procs[p].snap]_vars

\* C14: in every committed state of a configured working copy all three
\* triggers exist, also after a command that failed or was interrupted.
C14_TriggersComplete ==
    (wc /\ \A p \in Procs : ~InFlight(p)) => triggers = AllTriggers

\* C15 (I3): gpkg_contents.min_x and max_x are the minimum and the maximum X
\* over the geometries of all rows of the user table, and NULL when the
\* table is empty; stated for the states that a successful new or update
\* checkout leaves.
C15_BoundsMatchExtent ==
    (wc /\ last.cmd \in {"checkout_new", "checkout"} /\ last.status = "ok") =>
        IF DOMAIN table = {}
        THEN contents.min_x = NULL /\ contents.max_x = NULL
        ELSE /\ \E p \in DOMAIN table : contents.min_x = table[p]
             /\ \E p \in DOMAIN table : contents.max_x = table[p]
             /\ \A p \in DOMAIN table : contents.min_x <= table[p] /\ table[p] <= contents.max_x

\* C16 (I3): gpkg_contents.last_change is the timestamp of a commit whose
\* tree is the one recorded in __kxg_meta.
C16_LastChangeIsCommitTime ==
    wc => \E i \in 1..Len(commits) :
              commits[i].tree = meta_tree /\ commits[i].time = contents.last_change

\* C17: an update checkout onto a working copy whose __kxg_meta.tree is not
\* the base tree fails with WorkingCopyMismatch and changes nothing when
\* --force is not given; with --force it takes the recorded tree as the base
\* and the working copy ends with the features of the target tree.
C17_MismatchedCheckout ==
    [][(last'.cmd = "checkout" /\ meta_tree # HeadTree) =>
          IF ~last'.force
          THEN /\ last'.status = "mismatch"
               /\ UNCHANGED <<table, kmap, meta_tree, dbmeta, triggers, contents>>
          ELSE /\ last'.status = "ok"
               /\ table' = TreeTable(commits[last'.target].tree)]_vars

\* C18: a commit on a working copy whose __kxg_meta.tree is not HEAD's tree
\* fails with WorkingCopyMismatch before it writes: no commit is created,
\* HEAD does not move, and __kxg_map and __kxg_meta are unchanged.
C18_CommitChecksTree ==
    [][(last'.cmd = "commit" /\ meta_tree # HeadTree) =>
          /\ last'.status = "mismatch"
          /\ UNCHANGED <<commits, head, kmap, meta_tree, table, dbmeta, triggers,
                         contents>>]_vars

\* a commit refused for the mismatch while changes are pending
C18_Witness ==
    /\ last.cmd = "commit" /\ last.status = "mismatch"
    /\ meta_tree # HeadTree
    /\ ~AllClean(kmap)

\* C19: merge --ff-only of a commit that is not already merged and to which
\* HEAD cannot be fast-forwarded exits with status 1; HEAD does not move, no
\* commit is created and the working copy is not modified.
C19_FfOnlyRefuses ==
    [][(/\ last'.cmd = "merge" /\ last'.ff /\ last'.ff_only
        /\ merge_base(commits, head, last'.target) \notin {last'.target, head})
       => /\ last'.status = "exit1"
          /\ UNCHANGED <<commits, head, table, kmap, meta_tree, dbmeta, triggers,
                         contents>>]_vars

\* a refused merge --ff-only of diverged histories
C19_Witness ==
    /\ last.cmd = "merge" /\ last.status = "exit1" /\ last.ff_only
    /\ merge_base(commits, head, last.target) \notin {last.target, head}

\* C20: for every valid GeoPackage geometry g (either header byte order,
\* either WKB byte order, any SRID, any envelope indicator, any Z/M
\* combination), hexewkb_to_geom(hex(geom_to_ewkb(g))) equals g except for
\* the envelope bytes and the envelope indicator.
C20_RoundTripKeepsGeometry ==
    geom.back # <<>> => WithoutEnvelope(geom.back) = WithoutEnvelope(geom.gpkg)

\* C21: for every EWKB e (either byte order, any geometry type, any Z/M
\* flags, with or without an SRID), parse_gpkg_geom(hexewkb_to_geom(e))
\* returns wkb_offset 8, is_le equal to e's byte order and srid equal to e's
\* SRID, 0 when e carries none.
C21_ImportedHeader ==
    (geom.gpkg # <<>> /\ geom.ewkb # <<>>) =>
        LET p == parse_gpkg_geom(geom.gpkg)
        IN  /\ p.ok
            /\ p.wkb_offset = 8
            /\ p.is_le = geom.input.is_le
            /\ p.srid = geom.input.srid

\* a little-endian EWKB with an SRID, imported
C21_Witness ==
    /\ geom.gpkg # <<>> /\ geom.ewkb # <<>>
    /\ geom.input.is_le = 1 /\ geom.input.has_srid /\ geom.input.srid > 0

\* C22 as stated: for every EWKB e, SRID flag set or clear,
\* geom_to_ewkb(hexewkb_to_geom(e)) equals e byte for byte.
C22_ReExportEqualsInput ==
    (geom.back # <<>> /\ geom.ewkb # <<>>) => geom.back = geom.ewkb

\* C22 amended: for every EWKB e whose SRID flag is set only with an SRID
\* greater than 0, geom_to_ewkb(hexewkb_to_geom(e)) equals e byte for byte.
C22_ReExportEqualsCanonicalInput ==
    (geom.back # <<>> /\ geom.ewkb # <<>> /\ (geom.input.has_srid => geom.input.srid > 0))
        => geom.back = geom.ewkb

\* a big-endian EWKB with Z, M and an SRID, imported and exported again
C22_Witness ==
    /\ geom.back # <<>> /\ geom.ewkb # <<>>
    /\ geom.input.is_le = 0 /\ geom.input.zm = 3
    /\ geom.input.has_srid /\ geom.input.srid > 0

\* C23: for a GeoPackage geometry with or without an envelope, geom_to_ewkb
\* emits the inner WKB's byte order, the type word base | 0x80000000 if Z |
\* 0x40000000 if M | 0x20000000 if srid > 0, the 4-byte SRID exactly when
\* srid > 0, then the WKB body after its 5-byte header, all in the inner
\* WKB's byte order.
C23_EwkbOfGeometry ==
    (geom.ewkb # <<>> /\ geom.gpkg # <<>> /\ geom.input \in GeomInputs) =>
        geom.ewkb = EWKB(geom.input.wkb_is_le, geom.input.geom_type, geom.input.zm,
                         geom.input.srid > 0, geom.input.srid, geom.input.empty)

\* a geometry with an XYZM envelope, a header byte order other than its
\* WKB's and an SRID, exported
C23_Witness ==
    /\ geom.ewkb # <<>> /\ geom.input \in GeomInputs
    /\ geom.input.envelope_typ = 4 /\ geom.input.is_le # geom.input.wkb_is_le
    /\ geom.input.srid > 0 /\ geom.input.zm = 3

C25_HashOfPointerFile ==
    (lfs.pointer # <<>> /\ lfs.found # "pending") =>
        LET i      == lfs.input
            digits == Digits(i.n, i.fill, i.odd, IF i.last THEN i.n ELSE 1)
        IN  IF /\ i.before = <<>> /\ i.after = <<>> /\ i.n = HashLen
               /\ i.odd \in LowerHex
            THEN lfs.found = "hash" /\ lfs.hash = digits
            ELSE lfs.found = "none"

\* C26: after a commit of a new tile that is already in the dataset's
\* format, the tile's content is in the cache at the path that
\* tilenames_with_lfs_paths derives from the pointer blob written for it:
\* lfs/objects/H[0:2]/H[2:4]/H for the pointer's hash H.
C26_TileStoredWhereLookedUp ==
    (lfs.pointer = <<>> /\ lfs.result.status = "ok") =>
        \A n \in lfs.result.native : tilenames_with_lfs_paths(lfs.blobs)[n] \in lfs.cache

NewerConfigured ==
    /\ {"sno.workingcopy.version", "sno.workingcopy.path"} \subseteq DOMAIN repo_cfg.config
    /\ repo_cfg.config["sno.workingcopy.version"] = "1"

NewerAbsent ==
    {"sno.workingcopy.version", "sno.workingcopy.path"} \cap DOMAIN repo_cfg.config = {}

LegacyConfigured ==
    /\ "kx.workingcopy" \in DOMAIN repo_cfg.config
    /\ Len(repo_cfg.config["kx.workingcopy"]) = 3
    /\ repo_cfg.isfile

Resolved == {"WorkingCopy", "WorkingCopy_GPKG_1", "WorkingCopyPostgis"}

C28_LookupFallsBack ==
    (NewerConfigured \/ (NewerAbsent /\ LegacyConfigured)) =>
        /\ repo_cfg.opened.kind # "pending" => repo_cfg.opened.kind \in Resolved
        /\ repo_cfg.legacy.kind # "pending" => repo_cfg.legacy.kind \in Resolved

\* C28 (amended): each lookup reads its own key family and never the other.
\* WorkingCopy.open resolves through sno.workingcopy.version and
\* sno.workingcopy.path when the version key is present, and to no working
\* copy when it is absent, whatever kx.workingcopy holds; _get_working_copy
\* resolves through kx.workingcopy when it is present, and to no working
\* copy when it is absent, whatever the newer keys hold.
C28_EachLookupReadsItsOwnKeys ==
    /\ repo_cfg.opened.kind # "pending" =>
        /\ "sno.workingcopy.version" \notin DOMAIN repo_cfg.config =>
               repo_cfg.opened.kind = "None"
        /\ NewerConfigured =>
               /\ repo_cfg.opened.path = repo_cfg.config["sno.workingcopy.path"]
               /\ repo_cfg.opened.kind =
                      IF repo_cfg.config["sno.workingcopy.path"].scheme = "postgresql"
                      THEN "WorkingCopyPostgis" ELSE "WorkingCopy_GPKG_1"
    /\ repo_cfg.legacy.kind # "pending" =>
        /\ "kx.workingcopy" \notin DOMAIN repo_cfg.config => repo_cfg.legacy.kind = "None"
        /\ LegacyConfigured =>
               /\ repo_cfg.legacy.kind = "WorkingCopy"
               /\ <<repo_cfg.legacy.fmt, repo_cfg.legacy.path, repo_cfg.legacy.layer>> =
                      repo_cfg.config["kx.workingcopy"]

\* only the legacy key is configured and both lookups have run: the legacy
\* lookup found the working copy, WorkingCopy.open found none
C28_Witness ==
    /\ NewerAbsent /\ LegacyConfigured
    /\ repo_cfg.opened.kind = "None"
    /\ repo_cfg.legacy.kind = "WorkingCopy"

\* C29 (as stated): the primary key of a table is its declared primary-key
\* column if there is one, otherwise its first column of type INTEGER
\* wherever that column stands; without either, pk raises the
\* no-valid-primary-key error.
C29_PkIsFirstInteger ==
    (table_info.found # "pending" /\ Len(table_info.fields) >= 1) =>
        LET fields   == table_info.fields
            declared == {i \in 1..Len(fields) : fields[i].pk # 0}
            integers == {i \in 1..Len(fields) : fields[i].type = "INTEGER"}
        IN  table_info.found =
                IF declared # {} THEN fields[Min(declared)].name
                ELSE IF integers # {} THEN fields[Min(integers)].name
                ELSE "ValueError"

\* C29 (amended): the primary key of a table is its declared primary-key
\* column if there is one, otherwise its first column provided that column
\* is of type INTEGER; a table with no declared primary key whose first
\* column is not INTEGER is rejected with the no-valid-primary-key error,
\* even when a later column is INTEGER.
C29_PkIsDeclaredOrFirstColumn ==
    (table_info.found # "pending" /\ Len(table_info.fields) >= 1) =>
        LET fields == table_info.fields
        IN  IF \E i \in 1..Len(fields) : fields[i].pk # 0
            THEN \E i \in 1..Len(fields) :
                     /\ fields[i].pk # 0 /\ table_info.found = fields[i].name
                     /\ \A j \in 1..(i - 1) : fields[j].pk = 0
            ELSE IF fields[1].type = "INTEGER"
                 THEN table_info.found = fields[1].name
                 ELSE table_info.found = "ValueError"

\* pk has rejected a table without a declared key whose second column is
\* INTEGER and whose first is not
C29_Witness ==
    /\ table_info.found = "ValueError"
    /\ Len(table_info.fields) >= 2
    /\ table_info.fields[1].type = "TEXT"
    /\ table_info.fields[2].type = "INTEGER"

\* rows of __kxg_map by (state, feature_key)
InsertRows == {r \in DOMAIN kmap : r.state > 0 /\ r.fk = NULL}
UpdateRows == {r \in DOMAIN kmap : r.state > 0 /\ r.fk # NULL}
DeleteRows == {r \in DOMAIN kmap : r.state < 0 /\ r.fk # NULL}

\* C30 (as stated): the working-copy diff has exactly one result for each
\* __kxg_map row with state not 0: an insert with the user row's values for
\* (+1, NULL), an update with the user row's values for (+1, non-NULL), a
\* delete for (-1, non-NULL), the tree holding the old values of both, and
\* nothing for (-1, NULL).
C30_OneResultPerMapRow ==
    (last.cmd = "diff" /\ last.status # "mismatch") =>
        /\ last.status = "ok"
        /\ last.diff.I = BagOfAll(LAMBDA r : Joined(table, r), Where(kmap, InsertRows))
        /\ DOMAIN last.diff.U = {r.fk : r \in UpdateRows}
        /\ \A r \in UpdateRows : last.diff.U[r.fk] = Joined(table, r) /\ kmap[r] = 1
        /\ \A r, q \in UpdateRows : r.fk = q.fk => r = q
        /\ last.diff.D = {r.fk : r \in DeleteRows}
        /\ \A r \in DeleteRows : kmap[r] = 1
        /\ \A r, q \in DeleteRows : r.fk = q.fk => r = q
        /\ {r.fk : r \in UpdateRows \cup DeleteRows} \subseteq DOMAIN meta_tree.feats

\* C30 (amended): as stated, except that a (+1, non-NULL) row gives an
\* update only when the user row differs from the feature's values in the
\* tree, and nothing when they are equal.
C30_OneResultPerChangedMapRow ==
    (last.cmd = "diff" /\ last.status # "mismatch") =>
        LET changed == {r \in UpdateRows : r.fk \in DOMAIN meta_tree.feats =>
                                               Joined(table, r) # meta_tree.feats[r.fk]}
        IN  /\ last.status = "ok"
            /\ last.diff.I = BagOfAll(LAMBDA r : Joined(table, r), Where(kmap, InsertRows))
            /\ DOMAIN last.diff.U = {r.fk : r \in changed}
            /\ \A r \in changed : last.diff.U[r.fk] = Joined(table, r) /\ kmap[r] = 1
            /\ \A r, q \in UpdateRows : r.fk = q.fk => r = q
            /\ last.diff.D = {r.fk : r \in DeleteRows}
            /\ \A r \in DeleteRows : kmap[r] = 1
            /\ \A r, q \in DeleteRows : r.fk = q.fk => r = q
            /\ {r.fk : r \in UpdateRows \cup DeleteRows} \subseteq DOMAIN meta_tree.feats

\* a diff of a working copy holding a row updated to the values it had and
\* an inserted row: one insert, no update, no delete
C30_Witness ==
    /\ last.cmd = "diff" /\ last.status = "ok"
    /\ \E r \in UpdateRows : Joined(table, r) = meta_tree.feats[r.fk]
    /\ BagCardinality(last.diff.I) = 1
    /\ DOMAIN last.diff.U = {} /\ last.diff.D = {}

\* __kxg_map rows by what they record
Tombstones(m) == {r \in DOMAIN m : r.state < 0}
Tracking(m, p) == {r \in DOMAIN m : r.id = p /\ r.state >= 0}

\* C31: a user UPDATE of the row with primary key p to p' turns every map
\* row tracking it into (same feature key, p', +1) and leaves every
\* tombstone as it is; a user DELETE turns the map rows of the row into
\* tombstones; and a tombstone stays until a commit, reset or checkout.
C31_TriggersRecordEdits ==
    [][/\ \A p, q \in PKs, val \in Vals : UserUpdate(p, q, val) =>
              /\ \A r \in Tracking(kmap, p) :
                     BagIn([r EXCEPT !.id = q, !.state = 1], kmap')
              /\ (p # q => Tracking(kmap', p) = {})
              /\ \A r \in Tombstones(kmap) : CopiesIn(r, kmap') = CopiesIn(r, kmap)
              /\ BagCardinality(kmap') = BagCardinality(kmap)
       /\ \A p \in PKs : UserDelete(p) =>
              /\ \A r \in Tracking(kmap, p) : BagIn([r EXCEPT !.state = -1], kmap')
              /\ Tracking(kmap', p) = {}
              /\ BagCardinality(kmap') = BagCardinality(kmap)
       /\ last'.cmd \in {"insert", "update", "delete", "edit_meta"} =>
              \A r \in Tombstones(kmap) : CopiesIn(r, kmap') >= CopiesIn(r, kmap)
      ]_vars

\* C32: a successful update checkout on a clean working copy (every
\* __kxg_map state 0) leaves __kxg_map exactly one row (feature key, primary
\* key in the target tree, state 0) per feature of the target tree.
C32_MapAfterUpdateCheckout ==
    [][((\A r \in DOMAIN kmap : r.state = 0)
           /\ last'.cmd = "checkout" /\ last'.status = "ok")
        => kmap' = TreeMap(commits[last'.target].tree)]_vars

\* C33: with the order the reset block uses (re-insert the deleted features,
\* revert the modified ones, remove the rows the user added), the reset of a
\* working copy reached by user edits meets no primary-key conflict: no
\* statement of it fails.
C33_ResetMeetsNoConflict ==
    last.cmd = "reset" => last.status # "error"

\* C34: a new checkout writes the bounds in the transaction that loads the
\* features: once its load is committed, a layer that has rows does not
\* hold the NULL bounds in gpkg_contents.
C34_BoundsCommittedWithLoad ==
    (\E p \in Procs : procs[p].cmd = "checkout_new" /\ procs[p].pc = "loaded") =>
        (DOMAIN table # {} => contents.min_x # NULL /\ contents.max_x # NULL)

\* C35: a new checkout of a tree with N features leaves exactly the N rows
\* of its features in the user table and exactly the N rows (feature key,
\* primary key, 0) in __kxg_map, whatever N is against the batch size; the
\* buffers never hold more than the batch size; and the triggers exist only
\* once the load is done.
C35_BatchedLoadIsExact ==
    /\ Len(loader.wip_features) <= BatchSize
    /\ Len(loader.wip_idmap) = Len(loader.wip_features)
    /\ loader.pc = "loading" => triggers = {}
    /\ loader.pc = "done" =>
          /\ DOMAIN table = 1..loader.features
          /\ \A p \in DOMAIN table : table[p] = TreeFeature(p).v
          /\ kmap = SetToBag({MapRow(i, i, 0) : i \in 1..loader.features})
          /\ triggers = AllTriggers

\* a tree of more than a batch is loaded
C35_Witness ==
    /\ loader.pc = "done" /\ loader.features = BatchSize + 1
    /\ Cardinality(DOMAIN table) = BatchSize + 1
    /\ BagCardinality(kmap) = BatchSize + 1

\* C36: after a successful commit the new tree represents the working copy:
\* a fresh checkout of it gives the user table the working copy has, and
\* every __kxg_map row of state 0 names a feature of the new tree whose
\* primary key is the row's feature_id.
C36_CommitRepresentsWorkingCopy ==
    (last.cmd = "commit" /\ last.status = "ok") =>
        /\ _checkout_new(HeadTree).ok
        /\ table = _checkout_new(HeadTree).table
        /\ \A r \in DOMAIN kmap :
               r.state = 0 => /\ r.fk \in DOMAIN HeadTree.feats
                              /\ HeadTree.feats[r.fk].id = r.id

\* C37: after a checkout or reset command, whether it succeeded or failed,
\* __kxg_meta.tree is the tree of the commit HEAD points to.
C37_HeadFollowsWorkingCopy ==
    (wc /\ last.cmd \in {"checkout", "reset"}) => meta_tree = HeadTree

\* C38: in every working-copy state the three dirtiness tests agree: the
\* is_dirty count of the update checkout, the change counts of status, and
\* the non-empty working-copy diff of commit.
C38_DirtinessTestsAgree ==
    (wc /\ triggers = AllTriggers /\ _assert_db_tree_match(meta_tree, HeadTree)) =>
        LET d == _build_db_diff(table, kmap, meta_tree, dbmeta)
        IN  /\ IsDirty(kmap) <=> StatusReportsChanges(kmap)
            /\ IsDirty(kmap) <=> AnyDiff(d)

\* C39: a commit interrupted anywhere between its first write and its end
\* leaves repository and working copy in agreement: either HEAD's tree,
\* __kxg_meta.tree and __kxg_map are those found when the commit started, or
\* __kxg_meta.tree is the tree of the new HEAD and every __kxg_map state is 0.
C39_InterruptedCommitAgrees ==
    [][\A p \in Procs :
          (procs[p].cmd = "commit" /\ InFlight(p) /\ procs'[p].status = "interrupted")
          => \/ /\ HeadTree' = procs[p].base
                /\ meta_tree' = procs[p].snap.meta_tree
                /\ kmap' = procs[p].snap.kmap
             \/ /\ meta_tree' = HeadTree'
                /\ \A r \in DOMAIN kmap' : r.state = 0]_vars

\* C40: diff, status and fsck without --reset-layer leave the user table,
\* __kxg_map, __kxg_meta, gpkg_contents, the triggers, HEAD and the commits
\* unchanged, whatever they report.
C40_ReadOnlyCommandsChangeNothing ==
    [][(nops' = nops + 1 /\ last'.cmd \in {"diff", "status", "fsck"})
       => UNCHANGED <<commits, head, wc, table, kmap, meta_tree, dbmeta, triggers,
                      contents>>]_vars

\* fsck has run on a working copy with uncommitted edits and reported them;
\* the edits and the triggers are still there
C40_Witness ==
    /\ last.cmd = "fsck" /\ last.status = "dirty"
    /\ IsDirty(kmap) /\ triggers = AllTriggers

============================================================================
